---- MODULE Spec2Model ----
(***************************************************************************)
(* Model of parts of yara-x:                                               *)
(*   - lib/src/wasm/builder.rs   WasmModuleBuilder and the module it emits *)
(*   - yara-x/src/re/pikevm.rs   PikeVM::try_match                         *)
(*   - capi/src/compiler.rs      YRX_COMPILER                              *)
(*   - py/src/lib.rs             Compiler, Scanner, Rules, result objects  *)
(*   - lib/src/modules/macho/parser.rs   the Mach-O parser                 *)
(* Each subsystem has its own specification over its own variables; the    *)
(* variables of the other subsystems stay at their initial value.          *)
(***************************************************************************)
EXTENDS Integers, Sequences, FiniteSets, TLC

VARIABLES
    wb,          \* the WasmModuleBuilder being driven
    wbDefault,   \* a builder receiving the same calls, knobs left at default
    rule_table,  \* the compiler's rule table: rule_id -> namespace, global
    in_rule,     \* start_rule was called and finish_rule not yet
    built,       \* build() was called
    scanner,     \* state that lives in the scanner / wasm instance
    scan_log,    \* what each scan returned
    ns_calls,    \* number of new_namespace calls made
    knobs_set,   \* the knobs the builder's user has set
    pikevm,      \* the PikeVM: threads, next_threads
    tm,          \* the try_match call in progress: arguments, locals, result
    capi,        \* the C API: the YRX_COMPILER, the last error, the last call
    pyc,         \* the Python binding's Compiler and its last call
    pyheap,      \* the Python binding's Rules and Scanner objects
    pm,          \* a rule with patterns, the scanned data, the Python results
    fat,         \* MachO::parse at work on an input: locals, files, result
    leb,         \* a uleb128 / sleb128 call: the input and what it returned
    cpm,         \* a check_for_pattern_match call: memory, argument, result
    lc,          \* parse_macho_file at work on the load commands of a file
    trie,        \* parse_exports at work on an export trie
    rva,         \* a rva_to_offset call: segments, argument, result
    out          \* a parsed MachO and the module output made from it

wasmVars == <<wb, wbDefault, rule_table, in_rule, built, scanner, scan_log,
              ns_calls, knobs_set>>

pikeVars == <<pikevm, tm>>

bindingVars == <<capi, pyc, pyheap, pm>>

machoVars == <<lc, trie, rva, out>>

parserVars == <<fat, leb, cpm, machoVars>>

vars == <<wasmVars, pikeVars, bindingVars, parserVars>>

----------------------------------------------------------------------------
(* Bounds of the model. *)

MaxRules == 3
MaxNamespaces == 2
MaxKnob == 2
MaxScans == 2
MaxCodeLen == 3
MaxInputLen == 2
MaxOps == 2
MaxBuilds == 2
MaxAddr == 2
MaxRefs == 3
MaxAllocs == 3
MaxPatterns == 3
MaxPatternLen == 2
MaxDataLen == 3
MaxMatchesPerPattern == 2
MaxCalls == 2

----------------------------------------------------------------------------
(* Small helpers. *)

RECURSIVE Pow2(_)
Pow2(n) == IF n = 0 THEN 1 ELSE 2 * Pow2(n - 1)

\* i32.and on values below 2^8 (the operands here are a byte and a mask).
RECURSIVE I32And(_, _)
I32And(a, b) ==
    IF a = 0 \/ b = 0 THEN 0
    ELSE 2 * I32And(a \div 2, b \div 2) + (IF a % 2 = 1 /\ b % 2 = 1 THEN 1 ELSE 0)

\* The i32 operations of the emitted code, on the operands they get here: a
\* shift count below 8 applied to 1 or to a byte, and an address sum that
\* stays inside main memory, so no result reaches 2^31.
I32ShrU(a, n) == a \div Pow2(n % 32)
I32Shl(a, n) == a * Pow2(n % 32)
I32RemU(a, b) == a % b
I32Add(a, b) == a + b

IsAscending(s) == \A i \in 1..Len(s) - 1 : s[i] < s[i + 1]

SeqToSet(s) == {s[i] : i \in 1..Len(s)}

----------------------------------------------------------------------------
(* The instructions the builder emits.                                     *)

\* Condition code the compiler emits between start_rule and finish_rule:
\* "false" (CondFalse), or "$p", a probe of pattern p (1 + p), which is true
\* on the inputs where pattern p matches.
CondFalse == 0
ProbedPattern == 9
CondProbe == 1 + ProbedPattern
CondKinds == {CondFalse, CondProbe}

\* An instruction: its opcode, its immediate, and for "eqz_if_else" whether the
\* then-branch holds the global rule's "call rule_no_match; return 1".
Instr(op, arg, g) == [op |-> op, arg |-> arg, g |-> g, rule |-> 0]

\* A rule's condition code; `rule` records whose condition it is.
Condition(cond, rule_id) == [op |-> "condition", arg |-> cond, g |-> FALSE, rule |-> rule_id]

\* The defaults of WasmModuleBuilder::new.
DefaultNamespacesPerFunc == 10
DefaultRulesPerFunc == 10

\* WasmModuleBuilder::new without the two instructions that reset
\* pattern_search_done at the start of main.
WasmModuleBuilder_new_no_reset ==
    [ rules_funcs         |-> <<>>,
      namespace_funcs     |-> <<>>,
      main_func           |-> <<>>,
      namespace_func      |-> <<>>,
      rules_func          |-> <<>>,
      namespace_block     |-> <<>>,
      rule_id             |-> 0,
      num_rules           |-> 0,
      num_namespaces      |-> 0,
      namespaces_per_func |-> 10,
      rules_per_func      |-> 10,
      global_rule         |-> FALSE ]

\* WasmModuleBuilder::new. Function bodies are sequences of instructions;
\* rules_funcs and namespace_funcs are the functions added to module.funcs.
WasmModuleBuilder_new ==
    [ rules_funcs         |-> <<>>,
      namespace_funcs     |-> <<>>,
      main_func           |-> << Instr("i32_const", 0, FALSE),
                                 Instr("global_set_pattern_search_done", 0, FALSE) >>,
      namespace_func      |-> <<>>,
      rules_func          |-> <<>>,
      namespace_block     |-> <<>>,
      rule_id             |-> 0,
      num_rules           |-> 0,
      num_namespaces      |-> 0,
      namespaces_per_func |-> DefaultNamespacesPerFunc,
      rules_per_func      |-> DefaultRulesPerFunc,
      global_rule         |-> FALSE ]

namespaces_per_func(b, n) == [b EXCEPT !.namespaces_per_func = n]

rules_per_func(b, n) == [b EXCEPT !.rules_per_func = n]

\* finish_rule_func putting the call of the new rules function before the
\* calls already in the namespace block.
finish_rule_func_prepend(b) ==
    IF b.rules_func /= <<>>
    THEN [b EXCEPT
            !.rules_funcs = Append(@, Append(b.rules_func, Instr("i32_const", 0, FALSE))),
            !.namespace_block = <<Len(b.rules_funcs) + 1>> \o @,
            !.rules_func = <<>>]
    ELSE [b EXCEPT !.rules_func = <<>>]

\* finish_rule_func that keeps the finished code in the rules function under
\* construction (no mem::replace).
finish_rule_func_keep(b) ==
    IF b.rules_func /= <<>>
    THEN [b EXCEPT
            !.rules_funcs = Append(@, Append(b.rules_func, Instr("i32_const", 0, FALSE))),
            !.namespace_block = Append(@, Len(b.rules_funcs) + 1)]
    ELSE b

\* finish_rule_func: the rules function under construction is replaced by a
\* fresh one; when it held code it gets its trailing "i32.const 0", is added
\* to the module, and "call f; br_if block" goes to the namespace block.
finish_rule_func(b) ==
    IF b.rules_func /= <<>>
    THEN [b EXCEPT
            !.rules_funcs = Append(@, Append(b.rules_func, Instr("i32_const", 0, FALSE))),
            !.namespace_block = Append(@, Len(b.rules_funcs) + 1),
            !.rules_func = <<>>]
    ELSE [b EXCEPT !.rules_func = <<>>]

\* finish_namespace_block: a non-empty block is added to the namespaces
\* function and a new block is started.
finish_namespace_block(b) ==
    IF b.namespace_block /= <<>>
    THEN [b EXCEPT
            !.namespace_func = Append(@, b.namespace_block),
            !.namespace_block = <<>>]
    ELSE b

\* finish_namespace_func: the namespaces function is added to the module and
\* called from main; a fresh function and block replace it.
finish_namespace_func(b) ==
    [b EXCEPT
        !.namespace_funcs = Append(@, b.namespace_func),
        !.namespace_func = <<>>,
        !.namespace_block = <<>>,
        !.main_func = Append(@, Instr("call", Len(b.namespace_funcs) + 1, FALSE))]

\* start_rule that starts a new rules function without finishing the full one.
start_rule_drop(b, rule_id, global) ==
    LET b1 == IF b.num_rules = b.rules_per_func
              THEN [b EXCEPT !.rules_func = <<>>, !.num_rules = 0]
              ELSE b
    IN  [b1 EXCEPT !.num_rules = @ + 1, !.rule_id = rule_id, !.global_rule = global]

\* start_rule.
start_rule(b, rule_id, global) ==
    LET b1 == IF b.num_rules = b.rules_per_func
              THEN [finish_rule_func(b) EXCEPT !.num_rules = 0]
              ELSE b
    IN  [b1 EXCEPT !.num_rules = @ + 1, !.rule_id = rule_id, !.global_rule = global]

\* The caller of start_rule emits the rule's condition through the
\* InstrSeqBuilder it got back, which is the body of rules_func.
emit_condition(b, cond) ==
    [b EXCEPT !.rules_func = Append(@, Condition(cond, b.rule_id))]

\* finish_rule that emits the code of a non-global rule for every rule.
finish_rule_never_global(b) ==
    [b EXCEPT !.rules_func = Append(@, Instr("eqz_if_else", b.rule_id, FALSE))]

\* finish_rule that emits the code of a global rule for every rule.
finish_rule_always_global(b) ==
    [b EXCEPT !.rules_func = Append(@, Instr("eqz_if_else", b.rule_id, TRUE))]

\* finish_rule: "i32.eqz; if ... else ... end" with the rule id and the
\* global flag of the last start_rule compiled in.
finish_rule(b) ==
    [b EXCEPT !.rules_func = Append(@, Instr("eqz_if_else", b.rule_id, b.global_rule))]

\* new_namespace that leaves the namespace block open, so that the rules
\* functions of the next namespace are called from the same block.
new_namespace_same_block(b) ==
    LET b1 == finish_rule_func(b)
        b2 == IF b1.num_namespaces = b1.namespaces_per_func
              THEN [finish_namespace_func(finish_namespace_block(b1))
                       EXCEPT !.num_namespaces = 0]
              ELSE b1
    IN  [b2 EXCEPT !.num_namespaces = @ + 1, !.num_rules = 0]

\* new_namespace.
new_namespace(b) ==
    LET b1 == finish_namespace_block(finish_rule_func(b))
        b2 == IF b1.num_namespaces = b1.namespaces_per_func
              THEN [finish_namespace_func(b1) EXCEPT !.num_namespaces = 0]
              ELSE b1
    IN  [b2 EXCEPT !.num_namespaces = @ + 1, !.num_rules = 0]

\* build that does not add the last namespace block to the namespaces
\* function.
build_block_dropped(b) ==
    LET b1 == finish_namespace_func(finish_rule_func(b))
    IN  [b1 EXCEPT !.main_func = Append(@, Instr("i32_const", 0, FALSE))]

\* build.
build(b) ==
    LET b1 == finish_namespace_func(finish_namespace_block(finish_rule_func(b)))
    IN  [b1 EXCEPT !.main_func = Append(@, Instr("i32_const", 0, FALSE))]

----------------------------------------------------------------------------
(* The emitted module at run time.                                         *)

\* Value of the imported constant global matching_patterns_bitmap_base, and
\* the bytes of main memory the model keeps (the bitmap's).
matching_patterns_bitmap_base == 3
BitmapBytes == 2
MainMemory == [a \in 0..(matching_patterns_bitmap_base + BitmapBytes - 1) |-> 0]

\* The function without its last two instructions: the masked byte is
\* returned as it is.
check_for_pattern_match_unshifted(mem, pattern_id) ==
    LET addr == I32Add(I32ShrU(pattern_id, 3), matching_patterns_bitmap_base)
        tmp  == I32RemU(pattern_id, 8)
    IN  IF addr \notin DOMAIN mem
        THEN [trap |-> TRUE, value |-> 0, loads |-> {}, stores |-> {}]
        ELSE [trap |-> FALSE, value |-> I32And(mem[addr], I32Shl(1, tmp)),
              loads |-> {addr}, stores |-> {}]

\* The function emitted by gen_check_for_pattern_match: what it returns,
\* the addresses it loads from and stores to. Its one load traps when the
\* address is not inside main memory, and the call returns nothing.
check_for_pattern_match(mem, pattern_id) ==
    LET addr == I32Add(I32ShrU(pattern_id, 3), matching_patterns_bitmap_base)
        tmp  == I32RemU(pattern_id, 8)
    IN  IF addr \notin DOMAIN mem
        THEN [trap |-> TRUE, value |-> 0, loads |-> {}, stores |-> {}]
        ELSE [trap |-> FALSE,
              value |-> I32ShrU(I32And(mem[addr], I32Shl(1, tmp)), tmp),
              loads |-> {addr}, stores |-> {}]

\* Host side of a scan: the pattern search writes the bit of every pattern
\* that has a match in the input and sets pattern_search_done.
RECURSIVE set_pattern_bits(_, _)
set_pattern_bits(mem, ps) ==
    IF ps = {} THEN mem
    ELSE LET p == CHOOSE x \in ps : TRUE
             a == matching_patterns_bitmap_base + (p \div 8)
             m == Pow2(p % 8)
         IN  set_pattern_bits(
                 [mem EXCEPT ![a] = IF (@ \div m) % 2 = 1 THEN @ ELSE @ + m],
                 ps \ {p})

search_for_patterns(st) ==
    [st EXCEPT !.main_memory = set_pattern_bits(@, st.data),
               !.pattern_search_done = 1,
               !.searches = @ + 1]

\* Host function rule_match: the rule joins the matching rules.
rule_match(st, rule_id) ==
    [st EXCEPT !.matching_rules = Append(@, rule_id),
               !.calls = Append(@, <<"rule_match", rule_id>>)]

\* Host function rule_no_match, called for a global rule: the matches
\* recorded so far for rules of the rule's namespace are reverted.
rule_no_match(st, rule_id, table) ==
    [st EXCEPT !.matching_rules =
                   SelectSeq(@, LAMBDA r :
                       table[r + 1].namespace /= table[rule_id + 1].namespace),
               !.calls = Append(@, <<"rule_no_match", rule_id>>)]

\* A rule's condition code, leaving 0 or 1 on the stack. A pattern probe
\* triggers the pattern search when pattern_search_done is 0.
eval_condition(ins, st) ==
    LET st1 == [st EXCEPT !.evaluated = Append(@, ins.rule)]
    IN  IF ins.arg = CondFalse THEN [st |-> st1, value |-> 0]
        ELSE LET st2 == IF st1.pattern_search_done = 0
                        THEN search_for_patterns(st1) ELSE st1
             IN  [st |-> st2,
                  value |-> check_for_pattern_match(st2.main_memory, ins.arg - 1).value]

\* A rules function: returns 1 from the then-branch of a global rule,
\* otherwise runs to its trailing "i32.const 0".
RECURSIVE exec_rules_func(_, _, _, _, _)
exec_rules_func(body, i, top, st, table) ==
    IF i > Len(body) THEN [st |-> st, ret |-> top]
    ELSE LET ins == body[i] IN
         IF ins.op = "condition"
         THEN LET r == eval_condition(ins, st)
              IN  exec_rules_func(body, i + 1, r.value, r.st, table)
         ELSE IF ins.op = "eqz_if_else"
         THEN IF top = 0
              THEN IF ins.g
                   THEN [st |-> rule_no_match(st, ins.arg, table), ret |-> 1]
                   ELSE exec_rules_func(body, i + 1, top, st, table)
              ELSE exec_rules_func(body, i + 1, top, rule_match(st, ins.arg), table)
         ELSE exec_rules_func(body, i + 1, ins.arg, st, table)

\* A namespace block: "call rules_f; br_if block" for each rules function.
RECURSIVE exec_namespace_block(_, _, _, _, _)
exec_namespace_block(block, j, st, module, table) ==
    IF j > Len(block) THEN st
    ELSE LET r == exec_rules_func(module.rules_funcs[block[j]], 1, 0, st, table)
         IN  IF r.ret /= 0 THEN r.st
             ELSE exec_namespace_block(block, j + 1, r.st, module, table)

\* A namespaces function: its blocks in order.
RECURSIVE exec_namespace_func(_, _, _, _, _)
exec_namespace_func(blocks, k, st, module, table) ==
    IF k > Len(blocks) THEN st
    ELSE exec_namespace_func(blocks, k + 1,
             exec_namespace_block(blocks[k], 1, st, module, table), module, table)

\* The main function.
RECURSIVE exec_main(_, _, _, _, _)
exec_main(i, top, st, module, table) ==
    IF i > Len(module.main_func) THEN st
    ELSE LET ins == module.main_func[i] IN
         IF ins.op = "i32_const" THEN exec_main(i + 1, ins.arg, st, module, table)
         ELSE IF ins.op = "global_set_pattern_search_done"
         THEN exec_main(i + 1, top, [st EXCEPT !.pattern_search_done = top], module, table)
         ELSE exec_main(i + 1, top,
                  exec_namespace_func(module.namespace_funcs[ins.arg], 1, st, module, table),
                  module, table)

----------------------------------------------------------------------------
(* The Pike VM.                                                            *)

\* Option<usize>: <<>> is None, <<n>> is Some(n).
None == <<>>
Some(n) == <<n>>

\* Instructions of the regexp code. The code is a sequence of instructions
\* and a location is an index into it (every instruction has size 1).
\* Split carries its two targets in preference order.
AnyByte == [op |-> "AnyByte", a |-> 0, b |-> 0]
Byte(expected) == [op |-> "Byte", a |-> expected, b |-> 0]
MaskedByte(expected, mask) == [op |-> "MaskedByte", a |-> expected, b |-> mask]
ClassBitmap(lo, hi) == [op |-> "ClassBitmap", a |-> lo, b |-> hi]
ClassRanges(lo, hi) == [op |-> "ClassRanges", a |-> lo, b |-> hi]
Match == [op |-> "Match", a |-> 0, b |-> 0]
Eoi == [op |-> "Eoi", a |-> 0, b |-> 0]
Jump(target) == [op |-> "Jump", a |-> target, b |-> 0]
Split(first, second) == [op |-> "Split", a |-> first, b |-> second]

\* decode_instr: the instruction at a location, and its size.
decode_instr(code, ip) == [instr |-> code[ip], size |-> 1]

\* epsilon_closure: the locations of the non-epsilon instructions reached
\* from `start` through Split and Jump, in preference order, appended to
\* `closure`. A location is not added twice to the list of one step, and a
\* Split or Jump is followed once.
RECURSIVE epsilon_closure_from(_, _, _, _)
epsilon_closure_from(code, ip, closure, seen) ==
    IF ip \in seen \/ ip \in SeqToSet(closure)
    THEN [closure |-> closure, seen |-> seen]
    ELSE LET d == decode_instr(code, ip).instr
             seen1 == seen \cup {ip}
         IN  IF d.op = "Split"
             THEN LET r == epsilon_closure_from(code, d.a, closure, seen1)
                  IN  epsilon_closure_from(code, d.b, r.closure, r.seen)
             ELSE IF d.op = "Jump"
             THEN epsilon_closure_from(code, d.a, closure, seen1)
             ELSE [closure |-> Append(closure, ip), seen |-> seen1]

\* A closure that only knows the locations of its own call.
epsilon_closure_per_call(code, start, closure) ==
    closure \o epsilon_closure_from(code, start, <<>>, {}).closure

epsilon_closure(code, start, closure) ==
    epsilon_closure_from(code, start, closure, {}).closure

\* Whether a byte-consuming instruction accepts `byte` (an Option): the arms
\* of the match in try_match other than Match and Eoi.
I8And(x, m) == I32And(x, m)

\* is_match that takes any byte for a Byte instruction.
is_match_any_byte(instr, byte) == byte /= None

\* is_match whose AnyByte arm does not look at the byte.
is_match_past_end(instr, byte) ==
    \/ instr.op = "AnyByte"
    \/ byte /= None /\ instr.op = "Byte" /\ byte[1] = instr.a

is_match(instr, byte) ==
    IF byte = None THEN FALSE
    ELSE LET v == byte[1] IN
         CASE instr.op = "AnyByte" -> TRUE
           [] instr.op = "Byte" -> v = instr.a
           [] instr.op = "MaskedByte" -> I8And(v, instr.b) = instr.a
           [] instr.op = "ClassBitmap" -> instr.a <= v /\ v <= instr.b
           [] instr.op = "ClassRanges" -> instr.a <= v /\ v <= instr.b

\* The for loop of try_match over self.threads, from the i-th thread on.
\* Match records current_pos and breaks; Eoi breaks; an instruction that
\* accepts the byte adds the closure of the next location to next_threads.
RECURSIVE for_threads(_, _, _, _, _, _, _, _)
for_threads(code, threads, i, byte, next_byte, next_threads, matched_bytes, current_pos) ==
    IF i > Len(threads)
    THEN [next_threads |-> next_threads, matched_bytes |-> matched_bytes]
    ELSE LET ip == threads[i]
             d  == decode_instr(code, ip)
         IN  IF d.instr.op = "Match"
             THEN [next_threads |-> next_threads, matched_bytes |-> Some(current_pos)]
             ELSE IF d.instr.op = "Eoi"
             THEN [next_threads |-> next_threads, matched_bytes |-> matched_bytes]
             ELSE for_threads(code, threads, i + 1, byte, next_byte,
                      IF is_match(d.instr, byte)
                      THEN epsilon_closure(code, ip + d.size, next_threads)
                      ELSE next_threads,
                      matched_bytes, current_pos)

\* fwd_input.next() after k bytes were taken.
fwd_next(input, k) == IF k < Len(input) THEN Some(input[k + 1]) ELSE None

\* PikeVM::new.
PikeVM_new == [threads |-> <<>>, next_threads |-> <<>>]

TryMatchIdle ==
    [ pc |-> "idle", code |-> <<>>, start |-> 0, input |-> <<>>, taken |-> 0,
      byte |-> None, matched_bytes |-> None, current_pos |-> 0,
      iterations |-> 0, result |-> None,
      calls |-> 0 ]

PikeIdle ==
    /\ pikevm = PikeVM_new
    /\ tm = TryMatchIdle

\* The codes and inputs try_match is called with: every code of up to
\* MaxCodeLen instructions that ends with Match, over a small instruction
\* set, on every input of up to MaxInputLen bytes; and some longer codes,
\* with masks and classes, on inputs over more byte values.
NarrowBytes == {0, 1}
WideBytes == {0, 1, 2, 3}

InstrsAt(n) ==
    {AnyByte, Byte(0), Byte(1), Match, Eoi}
        \cup {Jump(t) : t \in 1..n}
        \cup {Split(x, y) : x \in 1..n, y \in 1..n}

EnumeratedCodes ==
    UNION {{c \o <<Match>> : c \in [1..(n - 1) -> InstrsAt(n)]} : n \in 1..MaxCodeLen}

CuratedCodes ==
    { \* a*b
      <<Split(2, 4), Byte(0), Jump(1), Byte(1), Match>>,
      \* (a|ab)(c|bcd)?   alternatives of different lengths
      <<Split(2, 3), Byte(0), Byte(0), Split(5, 6), Byte(1), Match>>,
      \* [0-1]+? with a masked byte behind it
      <<ClassRanges(0, 1), Split(3, 1), MaskedByte(2, 2), Match>>,
      \* a class, then anything, lazily
      <<ClassBitmap(1, 2), Split(5, 3), AnyByte, Jump(2), Match>>,
      \* a masked byte or the end marker
      <<Split(2, 4), MaskedByte(1, 1), Match, Eoi, Match>>,
      \* (a|.)b   two threads that advance to the same location
      <<Split(2, 4), Byte(0), Jump(5), AnyByte, Byte(1), Match>> }

SeqsUpTo(S, n) == UNION {[1..k -> S] : k \in 0..n}

TryMatchArgs ==
    (EnumeratedCodes \X SeqsUpTo(NarrowBytes, MaxInputLen))
        \cup (CuratedCodes \X SeqsUpTo(WideBytes, MaxInputLen + 1))

----------------------------------------------------------------------------
(* The scanner.                                                            *)

\* What an input is to the condition code: the patterns that match in it.
ScanInputs == SUBSET {ProbedPattern}

Scanner_new ==
    [ pattern_search_done |-> 0,
      main_memory         |-> MainMemory,
      matching_rules      |-> <<>>,
      calls               |-> <<>>,
      evaluated           |-> <<>>,
      searches            |-> 0,
      data                |-> {} ]

\* Scanner::scan: per-scan state is reset, then main runs.
scan(sc, data, module, table) ==
    exec_main(1, 0,
        [sc EXCEPT !.main_memory = MainMemory,
                   !.matching_rules = <<>>,
                   !.calls = <<>>,
                   !.evaluated = <<>>,
                   !.searches = 0,
                   !.data = data],
        module, table)

\* ScanResults::matching_rules and ScanResults::non_matching_rules.
matching_rules(st) == st.matching_rules

RECURSIVE non_matching_from(_, _, _)
non_matching_from(st, table, id) ==
    IF id >= Len(table) THEN <<>>
    ELSE (IF id \in SeqToSet(st.matching_rules) THEN <<>> ELSE <<id>>)
         \o non_matching_from(st, table, id + 1)

non_matching_rules(st, table) == non_matching_from(st, table, 0)

----------------------------------------------------------------------------
(* yara_x::Compiler, the library's compiler that both bindings wrap.       *)
(* A source is named by what it contains.                                  *)

SourceKinds ==
    {"plain", "include", "relaxed_re", "slow_pattern", "slow_loop",
     "syntax_error"}

yara_x_Compiler_new ==
    [ relaxed_re_syntax |-> FALSE, condition_optimization |-> FALSE,
      colorize_errors |-> FALSE, error_on_slow_pattern |-> FALSE,
      error_on_slow_loop |-> FALSE, enable_includes |-> TRUE,
      sources |-> <<>>, namespaces |-> {}, globals |-> {},
      include_dirs |-> {}, ignored_modules |-> {}, banned_modules |-> {},
      features |-> {}, linters |-> {}, errors |-> <<>>, warnings |-> <<>> ]

\* The setters relaxed_re_syntax(yes), condition_optimization(yes),
\* colorize_errors(yes), error_on_slow_pattern(yes), error_on_slow_loop(yes)
\* and enable_includes(yes).
yara_x_set(c, setting, yes) == [c EXCEPT ![setting] = yes]

\* The error add_source reports for a source, "none" when it compiles.
yara_x_add_source_error(c, src) ==
    CASE src = "syntax_error" -> "syntax_error"
      [] src = "include" /\ ~c.enable_includes -> "include_not_allowed"
      [] src = "relaxed_re" /\ ~c.relaxed_re_syntax -> "invalid_regexp"
      [] src = "slow_pattern" /\ c.error_on_slow_pattern -> "slow_pattern"
      [] src = "slow_loop" /\ c.error_on_slow_loop -> "slow_loop"
      [] OTHER -> "none"

\* add_source: a source that fails adds an error; one that compiles is
\* added, with a warning when it is slow.
yara_x_add_source(c, src) ==
    LET err == yara_x_add_source_error(c, src)
    IN  IF err # "none"
        THEN [c EXCEPT !.errors = Append(@, err)]
        ELSE [c EXCEPT
                !.sources = Append(@, src),
                !.warnings = IF src \in {"slow_pattern", "slow_loop"}
                             THEN Append(@, src) ELSE @]

\* add_include_dir, ignore_module, ban_module, enable_feature, new_namespace,
\* add_linter and define_global each add an item to what they accumulate.
yara_x_add(c, to, item) == [c EXCEPT ![to] = @ \cup {item}]

\* define_global fails when the identifier is already defined.
yara_x_define_global_error(c, ident) ==
    IF ident \in c.globals THEN "already_exists" ELSE "none"

\* build consumes the compiler; the rules are named by the sources compiled.
yara_x_build(c) == c.sources

\* The accumulated state of a compiler.
Accumulated(c) ==
    << c.sources, c.namespaces, c.globals, c.include_dirs, c.ignored_modules,
       c.banned_modules, c.features, c.linters, c.errors, c.warnings >>

NoCall == [op |-> "none", arg |-> "none", result |-> "none", rules |-> <<>>]

----------------------------------------------------------------------------
(* capi/src/compiler.rs: YRX_COMPILER.                                     *)

YRX_COLORIZE_ERRORS == 1
YRX_RELAXED_RE_SYNTAX == 2
YRX_ERROR_ON_SLOW_PATTERN == 4
YRX_ERROR_ON_SLOW_LOOP == 8
YRX_ENABLE_CONDITION_OPTIMIZATION == 16
YRX_DISABLE_INCLUDES == 32

AllFlags == 0..63

\* flags & flag != 0, for a flag of one bit
HasFlag(flags, flag) == (flags \div flag) % 2 = 1

_yrx_compiler_create(flags) ==
    LET c0 == yara_x_Compiler_new
        c1 == IF HasFlag(flags, YRX_RELAXED_RE_SYNTAX)
              THEN yara_x_set(c0, "relaxed_re_syntax", TRUE) ELSE c0
        c2 == IF HasFlag(flags, YRX_ENABLE_CONDITION_OPTIMIZATION)
              THEN yara_x_set(c1, "condition_optimization", TRUE) ELSE c1
        c3 == IF HasFlag(flags, YRX_COLORIZE_ERRORS)
              THEN yara_x_set(c2, "colorize_errors", TRUE) ELSE c2
        c4 == IF HasFlag(flags, YRX_ERROR_ON_SLOW_PATTERN)
              THEN yara_x_set(c3, "error_on_slow_pattern", TRUE) ELSE c3
        c5 == IF HasFlag(flags, YRX_ERROR_ON_SLOW_LOOP)
              THEN yara_x_set(c4, "error_on_slow_loop", TRUE) ELSE c4
        c6 == IF HasFlag(flags, YRX_DISABLE_INCLUDES)
              THEN yara_x_set(c5, "enable_includes", FALSE) ELSE c5
    IN  c6

\* No YRX_COMPILER: the handle the user holds points to nothing.
NoCompiler ==
    [allocated |-> FALSE, inner |-> yara_x_Compiler_new, flags |-> 0]

\* The mutant of yrx_compiler_build that forgets the creation flags.
yrx_compiler_build_flags_dropped(compiler) ==
    [compiler EXCEPT !.inner = _yrx_compiler_create(0)]

\* yrx_compiler_build, for a handle that is not null: the inner compiler is
\* replaced by a new one made from the creation flags.
yrx_compiler_build(compiler) ==
    [compiler EXCEPT !.inner = _yrx_compiler_create(compiler.flags)]

----------------------------------------------------------------------------
(* py/src/lib.rs: Compiler.                                                *)

NoPyCompiler ==
    [ allocated |-> FALSE, inner |-> yara_x_Compiler_new,
      relaxed_re_syntax |-> FALSE, error_on_slow_pattern |-> FALSE,
      includes_enabled |-> TRUE ]

Compiler_new_inner(relaxed_re_syntax, error_on_slow_pattern) ==
    yara_x_set(
        yara_x_set(yara_x_Compiler_new, "relaxed_re_syntax",
                   relaxed_re_syntax),
        "error_on_slow_pattern", error_on_slow_pattern)

Compiler_build(compiler) ==
    [compiler EXCEPT
       !.inner = Compiler_new_inner(compiler.relaxed_re_syntax,
                                    compiler.error_on_slow_pattern)]

----------------------------------------------------------------------------
(* The state of the bindings before anything was created.                  *)

CapiIdle ==
    [ compiler |-> NoCompiler, created |-> NoCompiler, last_error |-> "none",
      ret |-> NoCall, ops |-> 0, builds |-> 0 ]

PyCompilerIdle ==
    [ compiler |-> NoPyCompiler, ret |-> NoCall, ops |-> 0, builds |-> 0 ]

NoRules == [allocated |-> FALSE, id |-> 0, addr |-> 0, refcnt |-> 0]

NoScanner ==
    [ state |-> "none", _rules |-> FALSE, inner |-> FALSE, rules_id |-> 0,
      rules_ref |-> 0 ]

PyHeapIdle ==
    [ rules |-> NoRules, scanner |-> NoScanner, user_rules_refs |-> 0,
      user_scanner_refs |-> 0, allocs |-> 0 ]

PatternsIdle ==
    [ compiled |-> FALSE, patterns |-> <<>>, condition |-> "any",
      scanned |-> FALSE, data |-> <<>>, matching_rules |-> <<>> ]

NoInput == [magic |-> "other", data_len |-> 0, table |-> <<>>, mh |-> <<>>]

FatIdle ==
    [ pc |-> "idle", data |-> NoInput, archs |-> <<>>, i |-> 0,
      files |-> <<>>, fat_magic |-> None, result |-> "none" ]

NoLebResult == [ok |-> FALSE, val |-> {}, remainder |-> <<>>, err |-> "none"]

LebIdle == [pc |-> "idle", fn |-> "none", input |-> <<>>, result |-> NoLebResult]

CpmIdle ==
    [ pc |-> "idle", mem |-> <<>>, pattern_id |-> 0,
      ret |-> [trap |-> FALSE, value |-> 0, loads |-> {}, stores |-> {}] ]

LcIdle ==
    [ pc |-> "idle", commands |-> <<>>, ncmds |-> 0, at |-> 1, turn |-> 0,
      parsed |-> <<>> ]

TrieIdle ==
    [ pc |-> "idle", data |-> <<>>, stack |-> <<>>, visited |-> {},
      exports |-> <<>>, expanded |-> <<>>, pops |-> 0, result |-> "none" ]

RvaIdle == [pc |-> "idle", segments |-> <<>>, rva |-> {}, result |-> <<>>]

OutIdle == [pc |-> "idle", macho |-> <<>>, result |-> <<>>]

ParserIdle ==
    /\ fat = FatIdle
    /\ leb = LebIdle
    /\ cpm = CpmIdle
    /\ lc = LcIdle
    /\ trie = TrieIdle
    /\ rva = RvaIdle
    /\ out = OutIdle

BindingsIdle ==
    /\ capi = CapiIdle
    /\ pyc = PyCompilerIdle
    /\ pyheap = PyHeapIdle
    /\ pm = PatternsIdle

----------------------------------------------------------------------------
(* Actions of the builder and scanner specification.                       *)

WasmIdle ==
    /\ wb = WasmModuleBuilder_new
    /\ wbDefault = WasmModuleBuilder_new
    /\ rule_table = <<>>
    /\ in_rule = FALSE
    /\ built = FALSE
    /\ scanner = Scanner_new
    /\ scan_log = <<>>
    /\ ns_calls = 0
    /\ knobs_set = {}

WasmInit ==
    /\ WasmIdle
    /\ PikeIdle
    /\ BindingsIdle
    /\ ParserIdle

KnobValues == 0..MaxKnob

\* WasmModuleBuilder::namespaces_per_func, called when the builder is set up,
\* before the first namespace and rule.
NamespacesPerFunc(n) ==
    /\ ~built /\ ~in_rule /\ ns_calls = 0 /\ rule_table = <<>>
    /\ "namespaces_per_func" \notin knobs_set
    /\ wb' = namespaces_per_func(wb, n)
    /\ knobs_set' = knobs_set \cup {"namespaces_per_func"}
    /\ UNCHANGED <<wbDefault, rule_table, in_rule, built, scanner, scan_log, ns_calls>>
    /\ UNCHANGED <<pikeVars, bindingVars, parserVars>>

\* WasmModuleBuilder::rules_per_func, called when the builder is set up.
RulesPerFunc(n) ==
    /\ ~built /\ ~in_rule /\ ns_calls = 0 /\ rule_table = <<>>
    /\ "rules_per_func" \notin knobs_set
    /\ wb' = rules_per_func(wb, n)
    /\ knobs_set' = knobs_set \cup {"rules_per_func"}
    /\ UNCHANGED <<wbDefault, rule_table, in_rule, built, scanner, scan_log, ns_calls>>
    /\ UNCHANGED <<pikeVars, bindingVars, parserVars>>

\* WasmModuleBuilder::new_namespace. The rules that follow belong to a new
\* namespace, whose id is the number of new_namespace calls.
NewNamespace ==
    /\ ~built /\ ~in_rule
    /\ ns_calls < MaxNamespaces
    /\ wb' = new_namespace(wb)
    /\ wbDefault' = new_namespace(wbDefault)
    /\ ns_calls' = ns_calls + 1
    /\ UNCHANGED <<rule_table, in_rule, built, scanner, scan_log, knobs_set>>
    /\ UNCHANGED <<pikeVars, bindingVars, parserVars>>

\* WasmModuleBuilder::start_rule, and the caller emitting the condition of
\* the rule. Rule ids are given in declaration order, from 0.
StartRule(global, cond) ==
    /\ ~built /\ ~in_rule
    /\ Len(rule_table) < MaxRules
    /\ LET id == Len(rule_table) IN
        /\ wb' = emit_condition(start_rule(wb, id, global), cond)
        /\ wbDefault' = emit_condition(start_rule(wbDefault, id, global), cond)
        /\ rule_table' = Append(rule_table,
                             [namespace |-> ns_calls, global |-> global, cond |-> cond])
    /\ in_rule' = TRUE
    /\ UNCHANGED <<built, scanner, scan_log, ns_calls, knobs_set>>
    /\ UNCHANGED <<pikeVars, bindingVars, parserVars>>

\* WasmModuleBuilder::finish_rule.
FinishRule ==
    /\ ~built /\ in_rule
    /\ wb' = finish_rule(wb)
    /\ wbDefault' = finish_rule(wbDefault)
    /\ in_rule' = FALSE
    /\ UNCHANGED <<rule_table, built, scanner, scan_log, ns_calls, knobs_set>>
    /\ UNCHANGED <<pikeVars, bindingVars, parserVars>>

\* WasmModuleBuilder::build.
Build ==
    /\ ~built /\ ~in_rule
    /\ wb' = build(wb)
    /\ wbDefault' = build(wbDefault)
    /\ built' = TRUE
    /\ UNCHANGED <<rule_table, in_rule, scanner, scan_log, ns_calls, knobs_set>>
    /\ UNCHANGED <<pikeVars, bindingVars, parserVars>>

\* Scanner::scan on an input. The log keeps what the scan returned, and what
\* the module of the default-knob builder does on the same scanner state.
Scan(data) ==
    /\ built
    /\ Len(scan_log) < MaxScans
    /\ LET st == scan(scanner, data, wb, rule_table)
            sd == scan(scanner, data, wbDefault, rule_table)
        IN  /\ scanner' = st
            /\ scan_log' = Append(scan_log,
                   [ data               |-> data,
                     pattern_search_done_before |-> scanner.pattern_search_done,
                     matching_rules     |-> matching_rules(st),
                     non_matching_rules |-> non_matching_rules(st, rule_table),
                     calls              |-> st.calls,
                     evaluated          |-> st.evaluated,
                     searches           |-> st.searches,
                     default_calls      |-> sd.calls ])
    /\ UNCHANGED <<wb, wbDefault, rule_table, in_rule, built, ns_calls, knobs_set>>
    /\ UNCHANGED <<pikeVars, bindingVars, parserVars>>

WasmNext ==
    \/ \E n \in KnobValues : NamespacesPerFunc(n)
    \/ \E n \in KnobValues : RulesPerFunc(n)
    \/ NewNamespace
    \/ \E g \in BOOLEAN, c \in CondKinds : StartRule(g, c)
    \/ FinishRule
    \/ Build
    \/ \E d \in ScanInputs : Scan(d)

Spec == WasmInit /\ [][WasmNext]_vars

----------------------------------------------------------------------------
(* Properties of the builder and scanner specification.                    *)

RuleIds == 0..(Len(rule_table) - 1)

Scans == {scan_log[i] : i \in 1..Len(scan_log)}

\* The truth value of a rule's condition on an input.
TruthValue(r, data) ==
    rule_table[r + 1].cond = CondProbe /\ ProbedPattern \in data

SameNamespace(r, q) == rule_table[r + 1].namespace = rule_table[q + 1].namespace

Called(e, name, r) == \E i \in 1..Len(e.calls) : e.calls[i] = <<name, r>>

Occurrences(s, x) == Cardinality({i \in 1..Len(s) : s[i] = x})

\* C1: when a global rule G of namespace N is false on the input, the scan
\* ends with no rule of N among the matching rules, and no rule of N placed
\* after G has had its condition evaluated.
C1_GlobalRuleSuppressesNamespace ==
    \A e \in Scans : \A g \in RuleIds :
        (rule_table[g + 1].global /\ ~TruthValue(g, e.data)) =>
            \A r \in RuleIds : SameNamespace(r, g) =>
                /\ r \notin SeqToSet(e.matching_rules)
                /\ (r > g => r \notin SeqToSet(e.evaluated))

\* A scan where a false global rule reverted the recorded match of an
\* earlier rule of its namespace and kept a later, true one from running.
C1_Witness ==
    \E e \in Scans : \E g, r, q \in RuleIds :
        /\ r < g /\ g < q /\ SameNamespace(r, g) /\ SameNamespace(q, g)
        /\ rule_table[g + 1].global /\ ~TruthValue(g, e.data)
        /\ Called(e, "rule_match", r) /\ Called(e, "rule_no_match", g)
        /\ TruthValue(q, e.data)
        /\ e.matching_rules = <<>>

\* C2: after a scan every rule of the rule set is yielded exactly once, by
\* matching_rules() or by non_matching_rules(), and nothing else is yielded.
C2_MatchingPartition ==
    \A e \in Scans :
        /\ \A r \in RuleIds :
              Occurrences(e.matching_rules, r) + Occurrences(e.non_matching_rules, r) = 1
        /\ SeqToSet(e.matching_rules) \cup SeqToSet(e.non_matching_rules) = RuleIds

\* A scan with a matching rule, a false global rule, and a rule of the global
\* rule's namespace that was reverted or skipped.
C2_Witness ==
    \E e \in Scans : \E g, r \in RuleIds :
        /\ e.matching_rules /= <<>>
        /\ Called(e, "rule_no_match", g)
        /\ TruthValue(r, e.data)
        /\ \/ Called(e, "rule_match", r) /\ r \notin SeqToSet(e.matching_rules)
           \/ r \notin SeqToSet(e.evaluated)
        /\ r \in SeqToSet(e.non_matching_rules)

RuleMatchCalls(e) ==
    SelectSeq(e.calls, LAMBDA c : c[1] = "rule_match")

\* C3: in a scan the rule conditions are evaluated in declaration order,
\* rule_match is called in that order, and matching_rules() and
\* non_matching_rules() yield ascending rule ids.
C3_RuleOrder ==
    \A e \in Scans :
        /\ IsAscending(e.evaluated)
        /\ IsAscending([i \in 1..Len(RuleMatchCalls(e)) |-> RuleMatchCalls(e)[i][2]])
        /\ IsAscending(e.matching_rules)
        /\ IsAscending(e.non_matching_rules)

\* A scan with matching rules from different rules functions and different
\* namespaces functions.
C3_Witness ==
    \E e \in Scans :
        /\ Len(e.matching_rules) >= 2
        /\ Len(e.non_matching_rules) >= 1
        /\ Len(wb.rules_funcs) >= 3
        /\ Len(wb.namespace_funcs) >= 2
        /\ \E r, q \in SeqToSet(e.matching_rules) : ~SameNamespace(r, q)

\* C6: the host calls made by main are the same whatever rules_per_func and
\* namespaces_per_func were set to: they are those of the module built with
\* the defaults.
C6_KnobsKeepSemantics ==
    \A e \in Scans : e.calls = e.default_calls

\* A scan of a module split differently from the default one, with a match
\* and a false global rule.
C6_Witness ==
    \E e \in Scans : \E g, r \in RuleIds :
        /\ wb.rules_per_func /= DefaultRulesPerFunc
        /\ wb.namespaces_per_func /= DefaultNamespacesPerFunc
        /\ Len(wb.rules_funcs) > Len(wbDefault.rules_funcs)
        /\ Len(wb.namespace_funcs) > Len(wbDefault.namespace_funcs)
        /\ Called(e, "rule_match", r) /\ Called(e, "rule_no_match", g)

Results(e) == <<e.matching_rules, e.non_matching_rules, e.calls, e.evaluated>>

\* C9: two scans of the same input on one scanner return the same results,
\* and main resets pattern_search_done before it calls a namespaces function.
C9_ScanIdempotent ==
    /\ \A i, j \in 1..Len(scan_log) :
          scan_log[i].data = scan_log[j].data => Results(scan_log[i]) = Results(scan_log[j])
    /\ \A i \in 1..Len(wb.main_func) :
          wb.main_func[i].op = "call" =>
              /\ i > 2
              /\ wb.main_func[1] = Instr("i32_const", 0, FALSE)
              /\ wb.main_func[2].op = "global_set_pattern_search_done"

\* Two scans of an input in which the probed pattern matches, the second
\* one starting with pattern_search_done left at 1 by the first.
C9_Witness ==
    /\ Len(scan_log) = 2
    /\ scan_log[1].data = {ProbedPattern}
    /\ scan_log[2].data = {ProbedPattern}
    /\ scan_log[2].pattern_search_done_before = 1
    /\ scan_log[2].matching_rules /= <<>>
    /\ scan_log[2].searches = 1

\* The rules whose condition code a rules function holds, in order.
RulesOf(f) ==
    LET conds == SelectSeq(f, LAMBDA ins : ins.op = "condition")
    IN  [i \in 1..Len(conds) |-> conds[i].rule]

\* The calls a run made for one rule.
CallsFor(calls, r) == SelectSeq(calls, LAMBDA c : c[2] = r)

\* A rules function run on its own on a scanner that holds `data`.
RunRulesFunc(f, data) ==
    exec_rules_func(f, 1, 0, [Scanner_new EXCEPT !.data = data], rule_table)

\* C19: in a rules function, a rule whose condition is true gets rule_match
\* called once and rule_no_match not at all; a false global rule gets
\* rule_no_match called once and the function returns 1 at once; a false
\* rule that is not global gets no call and the next rule is evaluated; the
\* function returns 0 only when no global rule in it was false.
C19_RuleOutcomes ==
    built =>
        \A k \in 1..Len(wb.rules_funcs) : \A data \in ScanInputs :
            LET f == wb.rules_funcs[k]
                rules == RulesOf(f)
                run == RunRulesFunc(f, data)
                FalseGlobal(i) == /\ rule_table[rules[i] + 1].global
                                  /\ ~TruthValue(rules[i], data)
                stops == {i \in 1..Len(rules) : FalseGlobal(i)}
                last == IF stops = {} THEN Len(rules)
                        ELSE CHOOSE i \in stops : \A j \in stops : i <= j
            IN  /\ run.st.evaluated = SubSeq(rules, 1, last)
                /\ \A i \in 1..last :
                      CallsFor(run.st.calls, rules[i]) =
                          IF TruthValue(rules[i], data)
                          THEN << <<"rule_match", rules[i]>> >>
                          ELSE IF rule_table[rules[i] + 1].global
                          THEN << <<"rule_no_match", rules[i]>> >>
                          ELSE <<>>
                /\ \A i \in (last + 1)..Len(rules) :
                      CallsFor(run.st.calls, rules[i]) = <<>>
                /\ run.ret = (IF stops = {} THEN 0 ELSE 1)

\* One rules function with a false rule that is not global, a true rule and
\* a false global rule, run by a scan: one call for each of the last two.
C19_Witness ==
    /\ built
    /\ Len(wb.rules_funcs) = 1
    /\ RulesOf(wb.rules_funcs[1]) = <<0, 1, 2>>
    /\ ~rule_table[1].global /\ rule_table[1].cond = CondFalse
    /\ rule_table[2].cond = CondProbe
    /\ rule_table[3].global /\ rule_table[3].cond = CondFalse
    /\ Len(scan_log) >= 1
    /\ scan_log[1].data = {ProbedPattern}
    /\ scan_log[1].evaluated = <<0, 1, 2>>
    /\ scan_log[1].calls = << <<"rule_match", 1>>, <<"rule_no_match", 2>> >>
    /\ RunRulesFunc(wb.rules_funcs[1], {ProbedPattern}).ret = 1

\* WasmModuleBuilder::rules_per_func called again later in the build,
\* between two rules: the method takes &mut self and any usize at any time.
RulesPerFuncLate(n) ==
    /\ ~built /\ ~in_rule
    /\ ns_calls > 0 \/ rule_table /= <<>>
    /\ "rules_per_func_late" \notin knobs_set
    /\ wb' = rules_per_func(wb, n)
    /\ knobs_set' = knobs_set \cup {"rules_per_func_late"}
    /\ UNCHANGED <<wbDefault, rule_table, in_rule, built, scanner, scan_log, ns_calls>>
    /\ UNCHANGED <<pikeVars, bindingVars, parserVars>>

\* The builder alone, rules_per_func callable at any point of the build.
BuildNext ==
    \/ \E n \in KnobValues : RulesPerFunc(n)
    \/ \E n \in KnobValues : RulesPerFuncLate(n)
    \/ NewNamespace
    \/ \E g \in BOOLEAN, c \in CondKinds : StartRule(g, c)
    \/ FinishRule
    \/ Build

SpecBuild == WasmInit /\ [][BuildNext]_vars

\* C20: every rules function holds the condition code of at most
\* rules_per_func rules, whatever value rules_per_func was given and
\* whenever: the function a rule has just been added to holds no more rules
\* than the value in force, and when the value was not changed after set-up
\* no emitted function does.
C20_RulesPerFuncRespected ==
    /\ in_rule => Len(RulesOf(wb.rules_func)) <= wb.rules_per_func
    /\ "rules_per_func_late" \notin knobs_set =>
          \A k \in 1..Len(wb.rules_funcs) :
              Len(RulesOf(wb.rules_funcs[k])) <= wb.rules_per_func

\* rules_per_func lowered to 1 after two rules: the third rule joins them.
C20_Witness ==
    /\ in_rule
    /\ "rules_per_func" \notin knobs_set
    /\ "rules_per_func_late" \in knobs_set
    /\ wb.rules_per_func = 1
    /\ Len(RulesOf(wb.rules_func)) = MaxRules

\* The rules of a namespace, in declaration order.
NamespaceRules(n) ==
    SelectSeq([i \in 1..Len(rule_table) |-> i - 1],
              LAMBDA r : rule_table[r + 1].namespace = n)

InNamespace(s, n) == SelectSeq(s, LAMBDA r : rule_table[r + 1].namespace = n)

\* C27: what a scan does with the rules of a namespace is decided by the
\* rules of that namespace alone. They are evaluated up to the namespace's
\* first false global rule (all of them when there is none) and those with a
\* true condition match unless the namespace has a false global rule; a
\* false global rule of another namespace, earlier or later, in the same
\* namespaces function or not, changes nothing.
C27_NamespacesIndependent ==
    \A e \in Scans : \A n \in 0..ns_calls :
        LET rules == NamespaceRules(n)
            stops == {i \in 1..Len(rules) :
                        /\ rule_table[rules[i] + 1].global
                        /\ ~TruthValue(rules[i], e.data)}
            last == IF stops = {} THEN Len(rules)
                    ELSE CHOOSE i \in stops : \A j \in stops : i <= j
        IN  /\ InNamespace(e.evaluated, n) = SubSeq(rules, 1, last)
            /\ InNamespace(e.matching_rules, n) =
                  IF stops = {}
                  THEN SelectSeq(rules, LAMBDA r : TruthValue(r, e.data))
                  ELSE <<>>
            /\ \A i \in 1..Len(rules) :
                  CallsFor(e.calls, rules[i]) =
                      IF i > last THEN <<>>
                      ELSE IF TruthValue(rules[i], e.data)
                      THEN << <<"rule_match", rules[i]>> >>
                      ELSE IF rule_table[rules[i] + 1].global
                      THEN << <<"rule_no_match", rules[i]>> >>
                      ELSE <<>>

\* Three namespaces in one namespaces function, the middle one with a false
\* global rule: the true rules of the one before and the one after match.
C27_Witness ==
    \E e \in Scans :
        /\ Len(rule_table) = 3
        /\ Len(wb.namespace_funcs) = 1
        /\ rule_table[1].namespace < rule_table[2].namespace
        /\ rule_table[2].namespace < rule_table[3].namespace
        /\ rule_table[2].global /\ ~TruthValue(1, e.data)
        /\ Called(e, "rule_no_match", 1)
        /\ e.matching_rules = <<0, 2>>

\* The namespace blocks of the module: <<k, j>> is the j-th block of the
\* k-th namespaces function.
Blocks ==
    { <<k, j>> \in (1..Len(wb.namespace_funcs)) \X (1..(MaxRules + 1)) :
        j <= Len(wb.namespace_funcs[k]) }

BlockAt(p) == wb.namespace_funcs[p[1]][p[2]]

\* C28: in the built module every rule lies in exactly one rules function,
\* once; every rules function is called from exactly one namespace block,
\* once, and holds rules of a single namespace, as does every block; every
\* block of a namespaces function is non-empty and nothing is left in the
\* builder outside the module; every namespaces function is called exactly
\* once from main.
C28_NothingLostOrShared ==
    built =>
        /\ \A r \in RuleIds :
              Cardinality({ <<k, i>> \in (1..Len(wb.rules_funcs)) \X (1..MaxRules) :
                              /\ i <= Len(RulesOf(wb.rules_funcs[k]))
                              /\ RulesOf(wb.rules_funcs[k])[i] = r }) = 1
        /\ \A k \in 1..Len(wb.rules_funcs) :
              /\ SeqToSet(RulesOf(wb.rules_funcs[k])) \subseteq RuleIds
              /\ \A r, q \in SeqToSet(RulesOf(wb.rules_funcs[k])) : SameNamespace(r, q)
              /\ Cardinality({ p \in Blocks : k \in SeqToSet(BlockAt(p)) }) = 1
              /\ \A p \in Blocks : Occurrences(BlockAt(p), k) <= 1
        /\ \A p \in Blocks :
              /\ BlockAt(p) /= <<>>
              /\ SeqToSet(BlockAt(p)) \subseteq 1..Len(wb.rules_funcs)
              /\ \A f, g \in SeqToSet(BlockAt(p)) :
                    \A r \in SeqToSet(RulesOf(wb.rules_funcs[f])) :
                    \A q \in SeqToSet(RulesOf(wb.rules_funcs[g])) : SameNamespace(r, q)
        /\ wb.rules_func = <<>> /\ wb.namespace_block = <<>> /\ wb.namespace_func = <<>>
        /\ \A k \in 1..Len(wb.namespace_funcs) :
              Cardinality({ i \in 1..Len(wb.main_func) :
                              wb.main_func[i] = Instr("call", k, FALSE) }) = 1
        /\ \A i \in 1..Len(wb.main_func) :
              wb.main_func[i].op = "call" =>
                  wb.main_func[i].arg \in 1..Len(wb.namespace_funcs)

\* A built module with two rules functions in one block, a second block in
\* the same namespaces function and a second namespaces function.
C28_Witness ==
    /\ built
    /\ Len(rule_table) = 3
    /\ Len(wb.rules_funcs) = 3
    /\ Len(wb.namespace_funcs) = 2
    /\ wb.namespace_funcs[1] = << <<1, 2>>, <<3>> >>
    /\ rule_table[1].namespace = rule_table[2].namespace
    /\ rule_table[2].namespace /= rule_table[3].namespace

----------------------------------------------------------------------------
(* Actions and properties of the Pike VM specification.                    *)

\* try_match up to the while loop: the first byte is read and the closure of
\* `start` goes to self.threads.
TryMatch(code, start, input) ==
    /\ tm.pc = "idle"
    /\ tm.calls < MaxCalls
    /\ pikevm' = [pikevm EXCEPT !.threads = epsilon_closure(code, start, @)]
    /\ tm' = [ pc |-> "loop", code |-> code, start |-> start, input |-> input,
               taken |-> 1, byte |-> fwd_next(input, 0), matched_bytes |-> None,
               current_pos |-> 0, iterations |-> 0, result |-> None,
               calls |-> tm.calls + 1 ]
    /\ UNCHANGED <<wasmVars, bindingVars, parserVars>>

\* An iteration that leaves self.threads as it was.
LoopIterationNoSwap ==
    /\ tm.pc = "loop"
    /\ pikevm.threads /= <<>>
    /\ pikevm' = [pikevm EXCEPT !.next_threads = <<>>]
    /\ tm' = [tm EXCEPT !.taken = @ + 1,
                        !.byte = fwd_next(tm.input, tm.taken),
                        !.current_pos = @ + 1,
                        !.iterations = @ + 1]
    /\ UNCHANGED <<wasmVars, bindingVars, parserVars>>

\* An iteration that swaps the two lists and does not clear next_threads.
LoopIterationNoClear ==
    /\ tm.pc = "loop"
    /\ pikevm.threads /= <<>>
    /\ LET next_byte == fwd_next(tm.input, tm.taken)
           r == for_threads(tm.code, pikevm.threads, 1, tm.byte, next_byte,
                            pikevm.next_threads, tm.matched_bytes, tm.current_pos)
       IN  /\ pikevm' = [threads |-> r.next_threads, next_threads |-> pikevm.threads]
           /\ tm' = [tm EXCEPT !.taken = @ + 1,
                               !.byte = next_byte,
                               !.matched_bytes = r.matched_bytes,
                               !.current_pos = @ + 1,
                               !.iterations = @ + 1]
    /\ UNCHANGED <<wasmVars, bindingVars, parserVars>>

\* One iteration of the while loop.
LoopIteration ==
    /\ tm.pc = "loop"
    /\ pikevm.threads /= <<>>
    /\ LET next_byte == fwd_next(tm.input, tm.taken)
           r == for_threads(tm.code, pikevm.threads, 1, tm.byte, next_byte,
                            pikevm.next_threads, tm.matched_bytes, tm.current_pos)
       IN  /\ pikevm' = [threads |-> r.next_threads, next_threads |-> <<>>]
           /\ tm' = [tm EXCEPT !.taken = @ + 1,
                               !.byte = next_byte,
                               !.matched_bytes = r.matched_bytes,
                               !.current_pos = @ + 1,
                               !.iterations = @ + 1]
    /\ UNCHANGED <<wasmVars, bindingVars, parserVars>>

\* The loop ends when self.threads is empty: matched_bytes is returned.
Return ==
    /\ tm.pc = "loop"
    /\ pikevm.threads = <<>>
    /\ tm' = [tm EXCEPT !.pc = "done", !.result = tm.matched_bytes]
    /\ UNCHANGED <<pikevm, wasmVars, bindingVars, parserVars>>

\* The caller takes the result; the PikeVM stays as the call left it and
\* is used for the next call.
TryMatchEnd ==
    /\ tm.pc = "done"
    /\ tm' = [TryMatchIdle EXCEPT !.calls = tm.calls]
    /\ UNCHANGED <<pikevm, wasmVars, bindingVars, parserVars>>

PikeInit ==
    /\ PikeIdle
    /\ WasmIdle
    /\ BindingsIdle
    /\ ParserIdle

PikeNext ==
    \/ \E a \in TryMatchArgs : TryMatch(a[1], 1, a[2])
    \/ LoopIteration
    \/ Return
    \/ TryMatchEnd

SpecPike == PikeInit /\ [][PikeNext]_vars

\* The lengths n such that some run of the code from `start` reaches Match
\* after taking exactly n bytes of the input (the language of the code as a
\* nondeterministic automaton; Eoi has no successor).
RECURSIVE EpsReach(_, _)
EpsReach(code, ips) ==
    LET more == ips \cup {code[i].a : i \in {j \in ips : code[j].op \in {"Split", "Jump"}}}
                    \cup {code[i].b : i \in {j \in ips : code[j].op = "Split"}}
    IN  IF more = ips THEN ips ELSE EpsReach(code, more)

\* The bytes an instruction of the automaton takes.
Takes(instr, v) ==
    \/ instr.op = "AnyByte"
    \/ instr.op = "Byte" /\ v = instr.a
    \/ instr.op = "MaskedByte" /\ I32And(v, instr.b) = instr.a
    \/ instr.op \in {"ClassBitmap", "ClassRanges"} /\ v \in instr.a..instr.b

ByteStep(code, ips, v) == {i + 1 : i \in {j \in ips : Takes(code[j], v)}}

RECURSIVE ActiveAfter(_, _, _, _)
ActiveAfter(code, start, input, n) ==
    IF n = 0 THEN EpsReach(code, {start})
    ELSE EpsReach(code, ByteStep(code, ActiveAfter(code, start, input, n - 1), input[n]))

AcceptLens(code, start, input) ==
    {n \in 0..Len(input) : \E i \in ActiveAfter(code, start, input, n) : code[i].op = "Match"}

MinOf(S) == CHOOSE x \in S : \A y \in S : x <= y

HasEoi(code) == \E i \in 1..Len(code) : code[i].op = "Eoi"

\* C5 as claimed (on codes without Eoi): try_match returns the length of the
\* shortest accepting run, or None when no run accepts.
C5_ShortestAcceptingRun ==
    (tm.pc = "done" /\ ~HasEoi(tm.code)) =>
        tm.result = (IF AcceptLens(tm.code, tm.start, tm.input) = {} THEN None
                     ELSE Some(MinOf(AcceptLens(tm.code, tm.start, tm.input))))

\* C5 amended: try_match returns Some(n) only when a run accepts after exactly
\* n bytes, and for a code without Eoi it returns None only when no run
\* accepts; n is the byte count recorded at the last step that reached Match.
C5_AcceptingRun ==
    tm.pc = "done" =>
        /\ (tm.result /= None =>
               tm.result[1] \in AcceptLens(tm.code, tm.start, tm.input))
        /\ (~HasEoi(tm.code) /\ AcceptLens(tm.code, tm.start, tm.input) /= {} =>
               tm.result /= None)

\* A call that returned more bytes than the shortest accepting run takes:
\* a thread ahead of Match extended the match after it was recorded.
C5_Witness ==
    /\ tm.pc = "done"
    /\ tm.result /= None
    /\ tm.result[1] > MinOf(AcceptLens(tm.code, tm.start, tm.input))
    /\ tm.iterations >= 2

\* C15: whenever try_match returns Some(n), n is at most the number of bytes
\* fwd_input yielded (the length of the forward input).
C15_MatchWithinInput ==
    /\ (tm.matched_bytes /= None => tm.matched_bytes[1] <= Len(tm.input))
    /\ (tm.pc = "done" /\ tm.result /= None => tm.result[1] <= Len(tm.input))

\* A match that takes the whole input, every byte of it.
C15_Witness ==
    /\ tm.pc = "done"
    /\ Len(tm.input) = MaxInputLen
    /\ tm.result = Some(Len(tm.input))

NoDuplicates(list) ==
    \A i \in 1..Len(list) : \A j \in 1..Len(list) : list[i] = list[j] => i = j

\* C16: at every step of try_match the list of threads, and the list of next
\* threads, holds no instruction location twice.
C16_ThreadsUnique ==
    /\ NoDuplicates(pikevm.threads)
    /\ NoDuplicates(pikevm.next_threads)

\* (a|.)b after the byte both alternatives take: the two threads advanced to
\* the same location, which is in the list once.
C16_Witness ==
    /\ tm.pc = "loop"
    /\ tm.code = <<Split(2, 4), Byte(0), Jump(5), AnyByte, Byte(1), Match>>
    /\ tm.input /= <<>>
    /\ tm.input[1] = 0
    /\ tm.iterations = 1
    /\ pikevm.threads = <<5>>

\* C17: the main loop of try_match runs at most len(fwd_input) + 1
\* iterations, so try_match terminates.
C17_IterationsBounded ==
    /\ tm.iterations <= Len(tm.input) + 1
    /\ (tm.pc = "loop" /\ tm.iterations = Len(tm.input) + 1 => pikevm.threads = <<>>)

\* A call that ran len(fwd_input) + 1 iterations and returned.
C17_Witness ==
    /\ tm.pc = "done"
    /\ Len(tm.input) = MaxInputLen
    /\ tm.iterations = Len(tm.input) + 1

\* try_match on the lists of PikeVM::new, as one computation.
RECURSIVE WhileThreads(_, _, _, _, _, _, _)
WhileThreads(code, input, threads, taken, byte, matched_bytes, current_pos) ==
    IF threads = <<>> THEN matched_bytes
    ELSE LET next_byte == fwd_next(input, taken)
             r == for_threads(code, threads, 1, byte, next_byte, <<>>,
                              matched_bytes, current_pos)
         IN  WhileThreads(code, input, r.next_threads, taken + 1, next_byte,
                          r.matched_bytes, current_pos + 1)

OnNewPikeVM(code, start, input) ==
    WhileThreads(code, input, epsilon_closure(code, start, PikeVM_new.threads),
                 1, fwd_next(input, 0), None, 0)

\* C29: when try_match returns, self.threads and self.next_threads are
\* empty, and what it returns is what a PikeVM that was never used returns
\* for the same arguments, whatever calls were made before.
C29_ListsEmptyOnReturn ==
    /\ tm.pc \in {"idle", "done"} =>
          pikevm.threads = <<>> /\ pikevm.next_threads = <<>>
    /\ tm.pc = "done" => tm.result = OnNewPikeVM(tm.code, tm.start, tm.input)

\* The return of a second call on one PikeVM in which Match, first in the
\* list, cut the thread behind it.
C29_Witness ==
    /\ tm.pc = "done"
    /\ tm.calls = 2
    /\ LET first == epsilon_closure(tm.code, tm.start, <<>>)
       IN  Len(first) >= 2 /\ tm.code[first[1]].op = "Match"
    /\ tm.result = Some(0)
    /\ pikevm = PikeVM_new

----------------------------------------------------------------------------
(* Actions of the C API specification. A handle is "null" or "valid"; a    *)
(* string argument is "utf8" or "invalid_utf8", an origin also "null".     *)

Handles == {"null", "valid"}
Strings == {"utf8", "invalid_utf8"}

\* A call is made with the null handle or with the handle of the compiler
\* that exists; at most MaxOps calls are made before each of MaxBuilds builds.
CapiCallable(handle) ==
    /\ capi.ret.result /= "crash"
    /\ capi.ops < MaxOps
    /\ capi.builds < MaxBuilds
    /\ handle = "valid" => capi.compiler.allocated

\* What a call leaves: the compiler, the last error ("unchanged" when
\* _yrx_set_last_error is not called) and the value returned.
CapiStep(op, arg, compiler, last_error, result) ==
    /\ capi' = [capi EXCEPT
          !.compiler = compiler,
          !.last_error = IF last_error = "unchanged" THEN @ ELSE last_error,
          !.ret = [op |-> op, arg |-> arg, result |-> result, rules |-> <<>>],
          !.ops = @ + 1]
    /\ UNCHANGED <<wasmVars, pikeVars, parserVars, pyc, pyheap, pm>>

\* A call that returns YRX_INVALID_ARGUMENT before doing anything.
InvalidArgument(op) ==
    CapiStep(op, "none", capi.compiler, "unchanged", "YRX_INVALID_ARGUMENT")

\* A call that hands a valid string to the library and succeeds.
CapiAdd(op, to, item) ==
    CapiStep(op, "none",
             [capi.compiler EXCEPT !.inner = yara_x_add(@, to, item)],
             "unchanged", "YRX_SUCCESS")

YrxCompilerCreate(flags) ==
    /\ capi.ret.result /= "crash"
    /\ ~capi.compiler.allocated
    /\ ~capi.created.allocated
    /\ LET compiler == [ allocated |-> TRUE,
                         inner |-> _yrx_compiler_create(flags),
                         flags |-> flags ]
       IN  capi' = [capi EXCEPT
              !.compiler = compiler,
              !.created = compiler,
              !.ret = [ op |-> "yrx_compiler_create", arg |-> "none",
                        result |-> "YRX_SUCCESS", rules |-> <<>> ]]
    /\ UNCHANGED <<wasmVars, pikeVars, parserVars, pyc, pyheap, pm>>

\* drop(Box::from_raw(compiler)). On a null pointer this is undefined
\* behaviour: the drop of the YRX_COMPILER at address 0 ends the process
\* ("crash") or the call returns without effect.
YrxCompilerDestroy(handle) ==
    IF handle = "null"
    THEN /\ CapiCallable(handle)
         /\ \E outcome \in {"void", "crash"} :
               CapiStep("yrx_compiler_destroy", "null", capi.compiler,
                        "unchanged", outcome)
    ELSE /\ capi.ret.result /= "crash"
         /\ capi.compiler.allocated
         /\ CapiStep("yrx_compiler_destroy", "none", NoCompiler, "unchanged",
                     "void")

yrx_compiler_add_source_with_origin(op, handle, src, origin) ==
    IF handle = "null" \/ origin = "invalid_utf8"
    THEN InvalidArgument(op)
    ELSE LET err == yara_x_add_source_error(capi.compiler.inner, src)
             compiler == [capi.compiler EXCEPT
                             !.inner = yara_x_add_source(@, src)]
         IN  IF err = "none"
             THEN CapiStep(op, src, compiler, "none", "YRX_SUCCESS")
             ELSE CapiStep(op, src, compiler, err, "YRX_SYNTAX_ERROR")

YrxCompilerAddSource(handle, src) ==
    /\ CapiCallable(handle)
    /\ yrx_compiler_add_source_with_origin("yrx_compiler_add_source", handle,
                                           src, "null")

YrxCompilerAddSourceWithOrigin(handle, src, origin) ==
    /\ CapiCallable(handle)
    /\ yrx_compiler_add_source_with_origin(
           "yrx_compiler_add_source_with_origin", handle, src, origin)

YrxCompilerAddIncludeDir(handle, dir) ==
    /\ CapiCallable(handle)
    /\ IF handle = "null" \/ dir = "invalid_utf8"
       THEN InvalidArgument("yrx_compiler_add_include_dir")
       ELSE CapiAdd("yrx_compiler_add_include_dir", "include_dirs", dir)

YrxCompilerIgnoreModule(handle, module) ==
    /\ CapiCallable(handle)
    /\ IF handle = "null" \/ module = "invalid_utf8"
       THEN InvalidArgument("yrx_compiler_ignore_module")
       ELSE CapiAdd("yrx_compiler_ignore_module", "ignored_modules", module)

YrxCompilerEnableFeature(handle, feature) ==
    /\ CapiCallable(handle)
    /\ IF handle = "null" \/ feature = "invalid_utf8"
       THEN InvalidArgument("yrx_compiler_enable_feature")
       ELSE CapiAdd("yrx_compiler_enable_feature", "features", feature)

YrxCompilerBanModule(handle, module, error_title, error_msg) ==
    /\ CapiCallable(handle)
    /\ IF \/ handle = "null"
          \/ "invalid_utf8" \in {module, error_title, error_msg}
       THEN InvalidArgument("yrx_compiler_ban_module")
       ELSE CapiAdd("yrx_compiler_ban_module", "banned_modules", module)

YrxCompilerNewNamespace(handle, namespace) ==
    /\ CapiCallable(handle)
    /\ IF handle = "null" \/ namespace = "invalid_utf8"
       THEN InvalidArgument("yrx_compiler_new_namespace")
       ELSE CapiAdd("yrx_compiler_new_namespace", "namespaces", namespace)

\* yrx_compiler_define_global, behind define_global_str, _bool, _int, _float.
yrx_compiler_define_global(op, handle, ident) ==
    IF handle = "null" \/ ident = "invalid_utf8"
    THEN InvalidArgument(op)
    ELSE LET err == yara_x_define_global_error(capi.compiler.inner, ident)
         IN  IF err = "none"
             THEN CapiStep(op, "none",
                     [capi.compiler EXCEPT
                         !.inner = yara_x_add(@, "globals", ident)],
                     "none", "YRX_SUCCESS")
             ELSE CapiStep(op, "none", capi.compiler, err, "YRX_VARIABLE_ERROR")

\* yrx_compiler_define_global_bool, _int and _float.
YrxCompilerDefineGlobal(handle, ident) ==
    /\ CapiCallable(handle)
    /\ yrx_compiler_define_global("yrx_compiler_define_global", handle, ident)

\* yrx_compiler_define_global_str: the value is converted first.
YrxCompilerDefineGlobalStr(handle, ident, value) ==
    /\ CapiCallable(handle)
    /\ IF value = "invalid_utf8"
       THEN InvalidArgument("yrx_compiler_define_global_str")
       ELSE yrx_compiler_define_global("yrx_compiler_define_global_str",
                                       handle, ident)

\* The serialisation of the errors, which are strings, does not fail.
YrxCompilerErrorsJson(handle) ==
    /\ CapiCallable(handle)
    /\ IF handle = "null"
       THEN InvalidArgument("yrx_compiler_errors_json")
       ELSE CapiStep("yrx_compiler_errors_json", "none", capi.compiler,
                     "none", "YRX_SUCCESS")

YrxCompilerWarningsJson(handle) ==
    /\ CapiCallable(handle)
    /\ IF handle = "null"
       THEN InvalidArgument("yrx_compiler_warnings_json")
       ELSE CapiStep("yrx_compiler_warnings_json", "none", capi.compiler,
                     "none", "YRX_SUCCESS")

YrxCompilerBuild(handle) ==
    /\ capi.ret.result /= "crash"
    /\ capi.builds < MaxBuilds
    /\ handle = "valid" => capi.compiler.allocated
    /\ handle = "null" => capi.ops < MaxOps
    /\ IF handle = "null"
       THEN CapiStep("yrx_compiler_build", "none", capi.compiler,
                     "unchanged", "null")
       ELSE /\ capi' = [capi EXCEPT
                  !.compiler = yrx_compiler_build(capi.compiler),
                  !.ret = [ op |-> "yrx_compiler_build", arg |-> "none",
                            result |-> "rules",
                            rules |-> yara_x_build(capi.compiler.inner) ],
                  !.ops = 0,
                  !.builds = @ + 1]
            /\ UNCHANGED <<wasmVars, pikeVars, parserVars, pyc, pyheap, pm>>

CapiInit ==
    /\ WasmIdle
    /\ PikeIdle
    /\ BindingsIdle
    /\ ParserIdle

CapiNext ==
    \/ \E flags \in AllFlags : YrxCompilerCreate(flags)
    \/ \E h \in Handles : YrxCompilerDestroy(h)
    \/ \E h \in Handles, src \in SourceKinds : YrxCompilerAddSource(h, src)
    \/ \E h \in Handles, src \in SourceKinds, origin \in Strings \cup {"null"} :
          YrxCompilerAddSourceWithOrigin(h, src, origin)
    \/ \E h \in Handles, s \in Strings : YrxCompilerAddIncludeDir(h, s)
    \/ \E h \in Handles, s \in Strings : YrxCompilerIgnoreModule(h, s)
    \/ \E h \in Handles, s \in Strings : YrxCompilerEnableFeature(h, s)
    \/ \E h \in Handles, s, t, m \in Strings : YrxCompilerBanModule(h, s, t, m)
    \/ \E h \in Handles, s \in Strings : YrxCompilerNewNamespace(h, s)
    \/ \E h \in Handles, s \in Strings : YrxCompilerDefineGlobal(h, s)
    \/ \E h \in Handles, s, v \in Strings : YrxCompilerDefineGlobalStr(h, s, v)
    \/ \E h \in Handles : YrxCompilerErrorsJson(h)
    \/ \E h \in Handles : YrxCompilerWarningsJson(h)
    \/ \E h \in Handles : YrxCompilerBuild(h)

SpecCapi == CapiInit /\ [][CapiNext]_vars

\* C7: after yrx_compiler_build has returned rules, the YRX_COMPILER is in
\* the state it had right after yrx_compiler_create: each setting has the
\* value the creation flags gave it and nothing accumulated is left.
C7_BuildResetsCompiler ==
    (capi.ret.op = "yrx_compiler_build" /\ capi.ret.result = "rules") =>
        LET c == capi.compiler.inner
            flags == capi.created.flags
        IN  /\ capi.compiler = capi.created
            /\ c.relaxed_re_syntax = HasFlag(flags, 2)
            /\ c.condition_optimization = HasFlag(flags, 16)
            /\ c.colorize_errors = HasFlag(flags, 1)
            /\ c.error_on_slow_pattern = HasFlag(flags, 4)
            /\ c.error_on_slow_loop = HasFlag(flags, 8)
            /\ c.enable_includes = ~HasFlag(flags, 32)
            /\ Accumulated(c) = Accumulated(yara_x_Compiler_new)

\* The second build of a compiler created with all flags, which returns the
\* rules of a source added after the first build.
C7_Witness ==
    /\ capi.ret.op = "yrx_compiler_build"
    /\ capi.ret.result = "rules"
    /\ capi.builds = 2
    /\ capi.ret.rules = <<"plain">>
    /\ capi.created.flags = 63

\* A call that changed neither the YRX_COMPILER nor the last error and
\* returned `result`.
Rejected(result) ==
    /\ capi'.ret.result = result
    /\ capi'.compiler = capi.compiler
    /\ capi'.last_error = capi.last_error

LastErrorWriters ==
    { "yrx_compiler_add_source", "yrx_compiler_add_source_with_origin",
      "yrx_compiler_define_global", "yrx_compiler_define_global_str",
      "yrx_compiler_errors_json", "yrx_compiler_warnings_json" }

\* The last error is written by the functions of LastErrorWriters only;
\* they clear it when they succeed and set it when they fail.
LastErrorDiscipline ==
    /\ capi'.last_error /= capi.last_error => capi'.ret.op \in LastErrorWriters
    /\ (capi' /= capi /\ capi'.ret.op \in LastErrorWriters) =>
          /\ capi'.ret.result = "YRX_SUCCESS" => capi'.last_error = "none"
          /\ capi'.ret.result \in {"YRX_SYNTAX_ERROR", "YRX_VARIABLE_ERROR",
                                   "YRX_SERIALIZATION_ERROR"}
                => capi'.last_error /= "none"

\* The calls with a null handle or a string that is not UTF-8, for the
\* functions that return a YRX_RESULT or, for yrx_compiler_build, rules.
InvalidCallsRejected ==
    /\ \A src \in SourceKinds :
          YrxCompilerAddSource("null", src) => Rejected("YRX_INVALID_ARGUMENT")
    /\ \A h \in Handles, src \in SourceKinds, origin \in Strings \cup {"null"} :
          ((h = "null" \/ origin = "invalid_utf8")
             /\ YrxCompilerAddSourceWithOrigin(h, src, origin))
          => Rejected("YRX_INVALID_ARGUMENT")
    /\ \A h \in Handles, x \in Strings :
          (h = "null" \/ x = "invalid_utf8") =>
             /\ YrxCompilerAddIncludeDir(h, x) => Rejected("YRX_INVALID_ARGUMENT")
             /\ YrxCompilerIgnoreModule(h, x) => Rejected("YRX_INVALID_ARGUMENT")
             /\ YrxCompilerEnableFeature(h, x) => Rejected("YRX_INVALID_ARGUMENT")
             /\ YrxCompilerNewNamespace(h, x) => Rejected("YRX_INVALID_ARGUMENT")
             /\ YrxCompilerDefineGlobal(h, x) => Rejected("YRX_INVALID_ARGUMENT")
    /\ \A h \in Handles, x, v \in Strings :
          ((h = "null" \/ "invalid_utf8" \in {x, v})
             /\ YrxCompilerDefineGlobalStr(h, x, v))
          => Rejected("YRX_INVALID_ARGUMENT")
    /\ \A h \in Handles, x, t, m \in Strings :
          ((h = "null" \/ "invalid_utf8" \in {x, t, m})
             /\ YrxCompilerBanModule(h, x, t, m))
          => Rejected("YRX_INVALID_ARGUMENT")
    /\ YrxCompilerErrorsJson("null") => Rejected("YRX_INVALID_ARGUMENT")
    /\ YrxCompilerWarningsJson("null") => Rejected("YRX_INVALID_ARGUMENT")
    /\ YrxCompilerBuild("null") => Rejected("null")

\* C30: every yrx_compiler_* function called with a null compiler handle or
\* with a string argument that is not UTF-8 returns YRX_INVALID_ARGUMENT (a
\* null pointer for yrx_compiler_build, nothing for yrx_compiler_destroy,
\* which has no return value) and changes neither the compiler nor the last
\* error; the last error is written only by add_source(_with_origin), the
\* define_global functions and the errors / warnings JSON functions, which
\* clear it on success and set it on failure.
C30_InvalidArgumentsRejected ==
    [][ /\ InvalidCallsRejected
        /\ YrxCompilerDestroy("null") => Rejected("void")
        /\ LastErrorDiscipline ]_vars

\* yrx_compiler_destroy was called with a null handle while a compiler
\* existed, and the process was ended.
C30_Witness ==
    /\ capi.ret.op = "yrx_compiler_destroy"
    /\ capi.ret.arg = "null"
    /\ capi.ret.result = "crash"
    /\ capi.compiler.allocated
    /\ capi.last_error /= "none"

----------------------------------------------------------------------------
(* Actions of the Python Compiler specification.                           *)

PyCallable ==
    /\ pyc.compiler.allocated
    /\ pyc.ops < MaxOps
    /\ pyc.builds < MaxBuilds

\* What a call leaves: the compiler, and the value returned or the exception
\* raised.
PyStep(op, arg, compiler, result) ==
    /\ pyc' = [pyc EXCEPT
          !.compiler = compiler,
          !.ret = [op |-> op, arg |-> arg, result |-> result, rules |-> <<>>],
          !.ops = @ + 1]
    /\ UNCHANGED <<wasmVars, pikeVars, parserVars, capi, pyheap, pm>>

PyCompilerNew(relaxed_re_syntax, error_on_slow_pattern, includes_enabled) ==
    /\ ~pyc.compiler.allocated
    /\ LET compiler ==
               [ allocated |-> TRUE,
                 inner |-> Compiler_new_inner(relaxed_re_syntax,
                                              error_on_slow_pattern),
                 relaxed_re_syntax |-> relaxed_re_syntax,
                 error_on_slow_pattern |-> error_on_slow_pattern,
                 includes_enabled |-> includes_enabled ]
       IN  pyc' = [pyc EXCEPT
              !.compiler =
                  [compiler EXCEPT
                     !.inner = yara_x_set(@, "enable_includes",
                                          includes_enabled)],
              !.ret = [ op |-> "new", arg |-> "none", result |-> "Compiler",
                        rules |-> <<>> ]]
    /\ UNCHANGED <<wasmVars, pikeVars, parserVars, capi, pyheap, pm>>

\* regexp_str is "valid" or "invalid"
PyCompilerRuleNameRegexp(regexp_str) ==
    /\ PyCallable
    /\ IF regexp_str = "invalid"
       THEN PyStep("rule_name_regexp", "none", pyc.compiler, "ValueError")
       ELSE PyStep("rule_name_regexp", "none",
                   [pyc.compiler EXCEPT
                      !.inner = yara_x_add(@, "linters", "rule_name")],
                   "None")

PyCompilerAddSource(src) ==
    /\ PyCallable
    /\ PyStep("add_source", src,
              [pyc.compiler EXCEPT !.inner = yara_x_add_source(@, src)],
              IF yara_x_add_source_error(pyc.compiler.inner, src) = "none"
              THEN "None" ELSE "CompileError")

PyCompilerAddIncludeDir ==
    /\ PyCallable
    /\ PyStep("add_include_dir", "none",
              [pyc.compiler EXCEPT
                 !.inner = yara_x_add(@, "include_dirs", "dir")], "None")

\* value is "supported" (bool, str, bytes, int, float) or "unsupported"
PyCompilerDefineGlobal(value) ==
    /\ PyCallable
    /\ IF value = "unsupported"
       THEN PyStep("define_global", "none", pyc.compiler, "TypeError")
       ELSE IF yara_x_define_global_error(pyc.compiler.inner, "ident")
                 # "none"
       THEN PyStep("define_global", "none", pyc.compiler, "ValueError")
       ELSE PyStep("define_global", "none",
                   [pyc.compiler EXCEPT
                      !.inner = yara_x_add(@, "globals", "ident")], "None")

PyCompilerNewNamespace ==
    /\ PyCallable
    /\ PyStep("new_namespace", "none",
              [pyc.compiler EXCEPT
                 !.inner = yara_x_add(@, "namespaces", "namespace")], "None")

PyCompilerIgnoreModule ==
    /\ PyCallable
    /\ PyStep("ignore_module", "none",
              [pyc.compiler EXCEPT
                 !.inner = yara_x_add(@, "ignored_modules", "module")],
              "None")

PyCompilerEnableIncludes(yes) ==
    /\ PyCallable
    /\ PyStep("enable_includes", "none",
              [pyc.compiler EXCEPT
                 !.includes_enabled = yes,
                 !.inner = yara_x_set(@, "enable_includes", yes)], "None")

PyCompilerBuild ==
    /\ pyc.compiler.allocated
    /\ pyc.builds < MaxBuilds
    /\ pyc' = [pyc EXCEPT
          !.compiler = Compiler_build(pyc.compiler),
          !.ret = [ op |-> "build", arg |-> "none", result |-> "Rules",
                    rules |-> yara_x_build(pyc.compiler.inner) ],
          !.ops = 0,
          !.builds = @ + 1]
    /\ UNCHANGED <<wasmVars, pikeVars, parserVars, capi, pyheap, pm>>

PyCompilerInit ==
    /\ WasmIdle
    /\ PikeIdle
    /\ BindingsIdle
    /\ ParserIdle

PyCompilerNext ==
    \/ \E r, s, i \in BOOLEAN : PyCompilerNew(r, s, i)
    \/ \E regexp_str \in {"valid", "invalid"} :
          PyCompilerRuleNameRegexp(regexp_str)
    \/ \E src \in SourceKinds : PyCompilerAddSource(src)
    \/ PyCompilerAddIncludeDir
    \/ \E value \in {"supported", "unsupported"} :
          PyCompilerDefineGlobal(value)
    \/ PyCompilerNewNamespace
    \/ PyCompilerIgnoreModule
    \/ \E yes \in BOOLEAN : PyCompilerEnableIncludes(yes)
    \/ PyCompilerBuild

SpecPyCompiler == PyCompilerInit /\ [][PyCompilerNext]_vars

\* C8: after Compiler.build() the compiler is empty and its configuration is
\* retained: relaxed_re_syntax, error_on_slow_pattern and the includes-enabled
\* setting are in effect in the compiler that receives the next sources, and
\* a source with an include added while includes are disabled is refused.
C8_BuildRetainsFlags ==
    /\ pyc.ret.op = "build" =>
          /\ Accumulated(pyc.compiler.inner)
                = Accumulated(yara_x_Compiler_new)
          /\ pyc.compiler.inner.relaxed_re_syntax
                = pyc.compiler.relaxed_re_syntax
          /\ pyc.compiler.inner.error_on_slow_pattern
                = pyc.compiler.error_on_slow_pattern
          /\ pyc.compiler.inner.enable_includes
                = pyc.compiler.includes_enabled
    /\ (pyc.ret.op = "add_source" /\ pyc.ret.arg = "include"
          /\ ~pyc.compiler.includes_enabled)
          => pyc.ret.result = "CompileError"

\* A source with an include is accepted after a build although includes were
\* disabled in the constructor or by enable_includes.
C8_Witness ==
    /\ pyc.builds >= 1
    /\ pyc.ret.op = "add_source"
    /\ pyc.ret.arg = "include"
    /\ pyc.ret.result = "None"
    /\ ~pyc.compiler.includes_enabled

----------------------------------------------------------------------------
(* py/src/lib.rs: Rules and Scanner as Python objects.                     *)

Addrs == 0..MaxAddr

\* Rules::new: the yrx::Rules are boxed and pinned at an address.
Rules_new(id, addr) ==
    [allocated |-> TRUE, id |-> id, addr |-> addr, refcnt |-> 1]

Py_INCREF(rules) == [rules EXCEPT !.refcnt = @ + 1]

\* The last reference frees the Rules object and the pinned box in it.
Py_DECREF(rules) ==
    IF rules.refcnt = 1
    THEN [rules EXCEPT !.refcnt = 0, !.allocated = FALSE]
    ELSE [rules EXCEPT !.refcnt = @ - 1]

\* The fields of Scanner as declared, which is the order they are dropped in.
ScannerFields == <<"_rules", "inner">>

\* Scanner::new: the Py<Rules> received is kept in _rules, and the inner
\* scanner holds a reference to the yrx::Rules at their address.
Scanner_new_py(rules) ==
    [ state |-> "alive", _rules |-> TRUE, inner |-> TRUE,
      rules_id |-> rules.id, rules_ref |-> rules.addr ]

\* The fields of a Scanner being destroyed that are not dropped yet.
RemainingFields(sc) ==
    SelectSeq(ScannerFields,
              LAMBDA f : IF f = "_rules" THEN sc._rules ELSE sc.inner)

PyRulesNew(addr) ==
    /\ ~pyheap.rules.allocated
    /\ pyheap.scanner.state \in {"none", "freed"}
    /\ pyheap.allocs < MaxAllocs
    /\ pyheap' = [pyheap EXCEPT
          !.rules = Rules_new(pyheap.allocs + 1, addr),
          !.user_rules_refs = 1,
          !.allocs = @ + 1]
    /\ UNCHANGED <<wasmVars, pikeVars, parserVars, capi, pyc, pm>>

UserCloneRules ==
    /\ pyheap.scanner.state # "dropping"
    /\ pyheap.user_rules_refs \in 1..(MaxRefs - 1)
    /\ pyheap' = [pyheap EXCEPT
          !.rules = Py_INCREF(@),
          !.user_rules_refs = @ + 1]
    /\ UNCHANGED <<wasmVars, pikeVars, parserVars, capi, pyc, pm>>

UserDropRules ==
    /\ pyheap.scanner.state # "dropping"
    /\ pyheap.user_rules_refs >= 1
    /\ pyheap' = [pyheap EXCEPT
          !.rules = Py_DECREF(@),
          !.user_rules_refs = @ - 1]
    /\ UNCHANGED <<wasmVars, pikeVars, parserVars, capi, pyc, pm>>

PyScannerNew ==
    /\ pyheap.user_rules_refs >= 1
    /\ pyheap.scanner.state \in {"none", "freed"}
    /\ pyheap' = [pyheap EXCEPT
          !.rules = Py_INCREF(@),
          !.scanner = Scanner_new_py(pyheap.rules),
          !.user_scanner_refs = 1]
    /\ UNCHANGED <<wasmVars, pikeVars, parserVars, capi, pyc, pm>>

UserCloneScanner ==
    /\ pyheap.scanner.state = "alive"
    /\ pyheap.user_scanner_refs \in 1..(MaxRefs - 1)
    /\ pyheap' = [pyheap EXCEPT !.user_scanner_refs = @ + 1]
    /\ UNCHANGED <<wasmVars, pikeVars, parserVars, capi, pyc, pm>>

\* Dropping the last reference to the Scanner starts its destruction.
UserDropScanner ==
    /\ pyheap.scanner.state = "alive"
    /\ pyheap.user_scanner_refs >= 1
    /\ pyheap' = [pyheap EXCEPT
          !.user_scanner_refs = @ - 1,
          !.scanner.state =
              IF pyheap.user_scanner_refs = 1 THEN "dropping" ELSE @]
    /\ UNCHANGED <<wasmVars, pikeVars, parserVars, capi, pyc, pm>>

\* The destruction of the Scanner drops its fields one after the other, in
\* declaration order; dropping _rules releases the reference to the Rules.
ScannerDropField ==
    /\ pyheap.scanner.state = "dropping"
    /\ LET field == Head(RemainingFields(pyheap.scanner))
           last == Len(RemainingFields(pyheap.scanner)) = 1
       IN  pyheap' = [pyheap EXCEPT
              !.rules = IF field = "_rules" THEN Py_DECREF(@) ELSE @,
              !.scanner._rules = IF field = "_rules" THEN FALSE ELSE @,
              !.scanner.inner = IF field = "inner" THEN FALSE ELSE @,
              !.scanner.state = IF last THEN "freed" ELSE @]
    /\ UNCHANGED <<wasmVars, pikeVars, parserVars, capi, pyc, pm>>

PyHeapInit ==
    /\ WasmIdle
    /\ PikeIdle
    /\ BindingsIdle
    /\ ParserIdle

PyHeapNext ==
    \/ \E addr \in Addrs : PyRulesNew(addr)
    \/ UserCloneRules
    \/ UserDropRules
    \/ PyScannerNew
    \/ UserCloneScanner
    \/ UserDropScanner
    \/ ScannerDropField

SpecPyHeap == PyHeapInit /\ [][PyHeapNext]_vars

\* C10: at every moment at which the inner scanner of a Scanner exists, the
\* Rules object the Scanner was created from is allocated, at the address the
\* inner scanner refers to; this includes the moments of the Scanner's own
\* destruction.
C10_RulesOutliveInnerScanner ==
    pyheap.scanner.inner =>
        /\ pyheap.rules.allocated
        /\ pyheap.rules.id = pyheap.scanner.rules_id
        /\ pyheap.rules.addr = pyheap.scanner.rules_ref

\* As long as the Scanner is not being destroyed the Rules stay allocated,
\* also when the user holds no reference to them.
C10_Witness ==
    /\ pyheap.scanner.state = "alive"
    /\ pyheap.scanner.inner
    /\ pyheap.user_rules_refs = 0
    /\ pyheap.rules.allocated
    /\ pyheap.rules.addr = pyheap.scanner.rules_ref

----------------------------------------------------------------------------
(* Scanning for patterns, and py/src/lib.rs: the conversion of the scan    *)
(* results to Python objects.                                              *)

DataBytes == {0, 1}

Literals == UNION {[1..n -> DataBytes] : n \in 1..MaxPatternLen}

PatternLists == UNION {[1..n -> Literals] : n \in 1..MaxPatterns}

ScanData == UNION {[1..n -> DataBytes] : n \in 0..MaxDataLen}

\* A Rust range start..end
Range(start, end) == [start |-> start, end |-> end]

Range_len(range) ==
    IF range.end > range.start THEN range.end - range.start ELSE 0

\* The pattern occurs in the data at the offset (offsets count from 0).
verify_match(pattern, data, offset) ==
    /\ offset + Len(pattern) <= Len(data)
    /\ \A i \in 1..Len(pattern) : data[offset + i] = pattern[i]

\* The match list of a pattern: the atoms found are verified in ascending
\* offset and a verified match is added while the list is below the cap.
RECURSIVE match_list(_, _, _, _)
match_list(pattern, data, offset, list) ==
    IF offset >= Len(data)
    THEN list
    ELSE match_list(pattern, data, offset + 1,
            IF verify_match(pattern, data, offset)
               /\ Len(list) < MaxMatchesPerPattern
            THEN Append(list, [ range |-> Range(offset, offset + Len(pattern)),
                                xor_key |-> None ])
            ELSE list)

\* The bit of a pattern is set when it was found, whatever the cap.
pattern_bit(pattern, data) ==
    \E offset \in 0..Len(data) : verify_match(pattern, data, offset)

\* The rule of the model: rule test { strings: ... condition: any of them }
\* or { ... all of them }.
eval_of_them(condition, patterns, data) ==
    IF condition = "all"
    THEN \A i \in 1..Len(patterns) : pattern_bit(patterns[i], data)
    ELSE \E i \in 1..Len(patterns) : pattern_bit(patterns[i], data)

\* scan: the matching rules with their patterns, in declaration order, and
\* the matches of each pattern.
yrx_scan(rules, data) ==
    IF eval_of_them(rules.condition, rules.patterns, data)
    THEN << [ identifier |-> "test",
              patterns |-> [ i \in 1..Len(rules.patterns) |->
                  [ identifier |-> i,
                    matches |-> match_list(rules.patterns[i], data, 0,
                                           <<>>) ] ] ] >>
    ELSE <<>>

\* The mutant of match_to_py that takes the end of the range for the length.
match_to_py_length_is_end(match_) ==
    [ offset |-> match_.range.start, length |-> match_.range.end,
      xor_key |-> match_.xor_key ]

match_to_py(match_) ==
    [ offset |-> match_.range.start, length |-> Range_len(match_.range),
      xor_key |-> match_.xor_key ]

pattern_to_py(pattern) ==
    [ identifier |-> pattern.identifier,
      matches |-> [ i \in 1..Len(pattern.matches) |->
                       match_to_py(pattern.matches[i]) ] ]

rule_to_py(rule) ==
    [ identifier |-> rule.identifier,
      patterns |-> [ i \in 1..Len(rule.patterns) |->
                        pattern_to_py(rule.patterns[i]) ] ]

scan_results_to_py(scan_results) ==
    [ i \in 1..Len(scan_results) |-> rule_to_py(scan_results[i]) ]

\* compile(src): the rule set.
PyCompile(patterns, condition) ==
    /\ ~pm.compiled
    /\ pm' = [pm EXCEPT !.compiled = TRUE, !.patterns = patterns,
                        !.condition = condition]
    /\ UNCHANGED <<wasmVars, pikeVars, parserVars, capi, pyc, pyheap>>

\* Rules.scan(data) and Scanner.scan(data).
PyScan(data) ==
    /\ pm.compiled
    /\ ~pm.scanned
    /\ pm' = [pm EXCEPT
          !.scanned = TRUE,
          !.data = data,
          !.matching_rules = scan_results_to_py(yrx_scan(pm, data))]
    /\ UNCHANGED <<wasmVars, pikeVars, parserVars, capi, pyc, pyheap>>

PatternsInit ==
    /\ WasmIdle
    /\ PikeIdle
    /\ BindingsIdle
    /\ ParserIdle

PatternsNext ==
    \/ \E patterns \in PatternLists, condition \in {"any", "all"} :
          PyCompile(patterns, condition)
    \/ \E data \in ScanData : PyScan(data)

SpecPatterns == PatternsInit /\ [][PatternsNext]_vars

\* The offsets at which a pattern occurs in the data.
OccurrenceOffsets(pattern, data) ==
    { o \in 0..Len(data) :
        /\ o + Len(pattern) <= Len(data)
        /\ SubSeq(data, o + 1, o + Len(pattern)) = pattern }

\* The patterns of a matching rule come in declaration order, the matches of
\* a pattern come in ascending offset, and each match is an occurrence of
\* the pattern, of the pattern's length.
MatchesAreOccurrences(rule) ==
    /\ Len(rule.patterns) = Len(pm.patterns)
    /\ \A i \in 1..Len(rule.patterns) :
          LET matches == rule.patterns[i].matches
          IN  /\ rule.patterns[i].identifier = i
              /\ \A j \in 1..Len(matches) :
                    /\ matches[j].offset \in
                          OccurrenceOffsets(pm.patterns[i], pm.data)
                    /\ matches[j].length = Len(pm.patterns[i])
              /\ \A j, k \in 1..Len(matches) :
                    j < k => matches[j].offset < matches[k].offset

MatchOffsets(rule, i) ==
    { rule.patterns[i].matches[j].offset :
        j \in 1..Len(rule.patterns[i].matches) }

\* C4 as stated: for a matching rule the matches of a pattern are exactly
\* the occurrences of the pattern in the scanned data, in ascending offset,
\* and the patterns come in declaration order.
C4_MatchesAreAllOccurrences ==
    pm.scanned =>
        \A r \in 1..Len(pm.matching_rules) :
            LET rule == pm.matching_rules[r]
            IN  /\ MatchesAreOccurrences(rule)
                /\ \A i \in 1..Len(rule.patterns) :
                      MatchOffsets(rule, i)
                        = OccurrenceOffsets(pm.patterns[i], pm.data)

\* C4 amended: for a matching rule the matches of a pattern are the
\* occurrences of the pattern in the scanned data up to the cap on the
\* matches of one pattern: the first ones in ascending offset, and all of
\* them when they are no more than the cap.
C4_MatchesAreFirstOccurrences ==
    pm.scanned =>
        \A r \in 1..Len(pm.matching_rules) :
            LET rule == pm.matching_rules[r]
            IN  /\ MatchesAreOccurrences(rule)
                /\ \A i \in 1..Len(rule.patterns) :
                      LET occ == OccurrenceOffsets(pm.patterns[i], pm.data)
                          got == MatchOffsets(rule, i)
                      IN  /\ got \subseteq occ
                          /\ Cardinality(got) =
                                IF Cardinality(occ) < MaxMatchesPerPattern
                                THEN Cardinality(occ)
                                ELSE MaxMatchesPerPattern
                          /\ \A o \in occ \ got : \A g \in got : g < o

\* The scan of the test `matches`, in small: two patterns found one after
\* the other and a third pattern that does not occur.
C4_Witness ==
    /\ pm.scanned
    /\ pm.patterns = << <<0, 0>>, <<1>>, <<1, 1>> >>
    /\ pm.data = <<0, 0, 1>>
    /\ Len(pm.matching_rules) = 1
    /\ pm.matching_rules[1].patterns[1].matches
          = << [offset |-> 0, length |-> 2, xor_key |-> None] >>
    /\ pm.matching_rules[1].patterns[2].matches
          = << [offset |-> 2, length |-> 1, xor_key |-> None] >>
    /\ pm.matching_rules[1].patterns[3].matches = <<>>

(***************************************************************************)
(* Mach-O parser: MachO::parse, parse_fat_macho_file, parse_macho_file     *)
(* (src/lib/src/modules/macho/parser.rs).                                  *)
(*                                                                         *)
(* An input is described by what the parser reads of it: the magic in its  *)
(* first four bytes, its length, the fat_arch table its header announces   *)
(* (the entries as they would read were the file long enough) and the      *)
(* magic found at each offset a slice can start at.  Everything after a    *)
(* Mach-O header is parsed with its errors dropped (load commands, symbol  *)
(* table, code signature, exports, imports), so a slice parses exactly     *)
(* when its magic verifies and its header is whole.                        *)
(***************************************************************************)
MaxArchs == 2

FatMagics == {"FAT_MAGIC", "FAT_CIGAM", "FAT_MAGIC_64", "FAT_CIGAM_64"}

MhMagics == {"MH_MAGIC", "MH_CIGAM", "MH_MAGIC_64", "MH_CIGAM_64"}

SliceOffsets == {0, 48, 80}

SliceSizes == {27, 28, 32, 1000}

DataLens == {3, 30, 48, 76, 108, 112}

FatInputs ==
    { [magic |-> m, data_len |-> l, table |-> t, mh |-> h] :
        m \in FatMagics \cup {"MH_MAGIC", "other"},
        l \in DataLens,
        t \in UNION { [1..n -> [offset : SliceOffsets, size : SliceSizes]] :
                        n \in 0..MaxArchs },
        h \in [SliceOffsets \ {0} -> {"MH_MAGIC", "MH_CIGAM_64", "other"}] }

\* The four bytes at `start` of the input, as the magic they spell.
magic_at(data, start) ==
    IF start = 0 THEN data.magic ELSE data.mh[start]

\* data.get(start..end): the slice, or None when it leaves the input.
data_get(data, start, end) ==
    IF start <= end /\ end <= data.data_len
    THEN Some([start |-> start, end |-> end])
    ELSE None

\* parse_macho_file on the bytes start..end of the input: the magic is
\* verified, the header is read (six u32 after the magic, a seventh in a
\* 64-bits file), and nothing after that fails the call.
parse_macho_file(data, start, end) ==
    LET len == end - start
        magic == magic_at(data, start)
        is_32_bits == magic \in {"MH_MAGIC", "MH_CIGAM"}
    IN  IF len < 4 \/ magic \notin MhMagics
        THEN [ok |-> FALSE, file |-> None]
        ELSE IF len - 4 < 4 * (IF is_32_bits THEN 6 ELSE 7)
        THEN [ok |-> FALSE, file |-> None]
        ELSE [ok |-> TRUE,
              file |-> [start |-> start, end |-> end, magic |-> magic]]

\* The head of parse_fat_macho_file: the magic, then length_count over the
\* fat_arch structures (20 bytes each, 32 for fat_arch64).
fat_arch_table(data) ==
    LET is_32_bits == data.magic \in {"FAT_MAGIC", "FAT_CIGAM"}
        need == 4 + 4 + Len(data.table) * (IF is_32_bits THEN 20 ELSE 32)
    IN  IF data.data_len < 4 \/ data.magic \notin FatMagics
        THEN [ok |-> FALSE, archs |-> <<>>]
        ELSE IF data.data_len < need
        THEN [ok |-> FALSE, archs |-> <<>>]
        ELSE [ok |-> TRUE, archs |-> data.table]

\* One turn of `for arch in &archs`, propagating the slice's error.
fat_arch_iteration_propagating(f) ==
    LET arch == f.archs[f.i]
        macho == data_get(f.data, arch.offset, arch.offset + arch.size)
        r == IF macho = None THEN [ok |-> FALSE, file |-> None]
             ELSE parse_macho_file(f.data, macho[1].start, macho[1].end)
    IN  IF r.ok
        THEN [f EXCEPT !.i = @ + 1, !.files = Append(@, r.file)]
        ELSE [f EXCEPT !.pc = "done", !.result = "Err"]

\* One turn of `for arch in &archs`.
fat_arch_iteration(f) ==
    LET arch == f.archs[f.i]
        start == arch.offset
        end == start + arch.size
        macho == data_get(f.data, start, end)
    IN  IF macho = None
        THEN [f EXCEPT !.i = @ + 1]
        ELSE LET r == parse_macho_file(f.data, macho[1].start, macho[1].end)
             IN  IF r.ok
                 THEN [f EXCEPT !.i = @ + 1, !.files = Append(@, r.file)]
                 ELSE [f EXCEPT !.i = @ + 1]

\* MachO::parse up to the first slice: le_u32 reads the magic, a FAT magic
\* sends the input to parse_fat_macho_file, any other to parse_macho_file.
MachOParse ==
    /\ fat.pc = "idle"
    /\ \E data \in FatInputs :
         LET t == fat_arch_table(data)
             r == parse_macho_file(data, 0, data.data_len)
         IN  fat' =
               IF data.data_len < 4
               THEN [fat EXCEPT !.pc = "done", !.data = data,
                                !.result = "Err"]
               ELSE IF data.magic \in FatMagics
               THEN IF t.ok
                    THEN [fat EXCEPT !.pc = "archs", !.data = data,
                                     !.archs = t.archs, !.i = 1]
                    ELSE [fat EXCEPT !.pc = "done", !.data = data,
                                     !.result = "Err"]
               ELSE IF r.ok
               THEN [fat EXCEPT !.pc = "done", !.data = data,
                                !.files = <<r.file>>, !.result = "Ok"]
               ELSE [fat EXCEPT !.pc = "done", !.data = data,
                                !.result = "Err"]
    /\ UNCHANGED <<wasmVars, pikeVars, bindingVars, machoVars, leb, cpm>>

FatArchIteration ==
    /\ fat.pc = "archs"
    /\ fat.i <= Len(fat.archs)
    /\ fat' = fat_arch_iteration(fat)
    /\ UNCHANGED <<wasmVars, pikeVars, bindingVars, machoVars, leb, cpm>>

FatReturn ==
    /\ fat.pc = "archs"
    /\ fat.i > Len(fat.archs)
    /\ fat' = [fat EXCEPT !.pc = "done", !.result = "Ok",
                          !.fat_magic = Some(fat.data.magic)]
    /\ UNCHANGED <<wasmVars, pikeVars, bindingVars, machoVars, leb, cpm>>

FatInit ==
    /\ WasmIdle
    /\ PikeIdle
    /\ BindingsIdle
    /\ ParserIdle

FatNext ==
    \/ MachOParse
    \/ FatArchIteration
    \/ FatReturn

SpecFat == FatInit /\ [][FatNext]_vars

\* The slices the fat_arch table names that lie inside the input and hold a
\* whole Mach-O header behind a Mach-O magic, in the order of the table.
HeaderLen(magic) == IF magic \in {"MH_MAGIC", "MH_CIGAM"} THEN 28 ELSE 32

GoodSlice(data, arch) ==
    /\ arch.offset + arch.size <= data.data_len
    /\ magic_at(data, arch.offset) \in MhMagics
    /\ arch.size >= HeaderLen(magic_at(data, arch.offset))

RECURSIVE GoodSlices(_, _)
GoodSlices(data, table) ==
    IF table = <<>> THEN <<>>
    ELSE LET rest == GoodSlices(data, Tail(table))
             a == Head(table)
         IN  IF GoodSlice(data, a)
             THEN << [start |-> a.offset, end |-> a.offset + a.size,
                      magic |-> magic_at(data, a.offset)] >> \o rest
             ELSE rest

FatTableParses(data) ==
    /\ data.magic \in FatMagics
    /\ data.data_len >= 8 + Len(data.table)
                              * (IF data.magic \in {"FAT_MAGIC", "FAT_CIGAM"}
                                 THEN 20 ELSE 32)

\* C11: on a FAT input whose magic and fat_arch table parse, MachO::parse
\* returns Ok whatever the slices hold; a slice that leaves the input or
\* does not parse is skipped, and `files` is exactly the slices that parsed,
\* in the order of the table.
C11_FatSlicesNeverFail ==
    (fat.pc = "done" /\ FatTableParses(fat.data))
        => /\ fat.result = "Ok"
           /\ fat.archs = fat.data.table
           /\ fat.files = GoodSlices(fat.data, fat.data.table)

\* Two architectures, the first whole and the second truncated: one file.
C11_Witness ==
    /\ fat.pc = "done"
    /\ FatTableParses(fat.data)
    /\ Len(fat.archs) = 2
    /\ GoodSlice(fat.data, fat.archs[1])
    /\ ~GoodSlice(fat.data, fat.archs[2])
    /\ fat.result = "Ok"
    /\ Len(fat.files) = 1
    /\ fat.files[1].start = fat.archs[1].offset

\* C23: for a MachO that represents a FAT binary, `archs` has as many
\* entries as `files` after the parse.
C23_ArchsMatchFiles ==
    (fat.pc = "done" /\ fat.result = "Ok" /\ fat.fat_magic /= None)
        => Len(fat.archs) = Len(fat.files)

\* A FAT binary of two architectures whose slices both leave the input:
\* two entries in `archs`, none in `files`.
C23_Witness ==
    /\ fat.pc = "done"
    /\ fat.result = "Ok"
    /\ fat.fat_magic /= None
    /\ Len(fat.archs) = 2
    /\ \A i \in 1..2 :
          fat.archs[i].offset + fat.archs[i].size > fat.data.data_len
    /\ fat.files = <<>>

(***************************************************************************)
(* uleb128 and sleb128 (src/lib/src/modules/macho/parser.rs).              *)
(*                                                                         *)
(* A u64 or i64 is the set of the positions of its one bits, 0..63: the    *)
(* code only shifts and ors, and both are exact on that representation at  *)
(* the full width.  An i64 is in two's complement, bit 63 is its sign.     *)
(***************************************************************************)
MaxLebLen == 11

u64_BITS == 64

Bits(byte) == { k \in 0..7 : (byte \div Pow2(k)) % 2 = 1 }

\* A shift that wraps the amount instead of checking it.
checked_shl_wrapping(b, shift) ==
    Some({ k + (shift % u64_BITS) : k \in b } \cap (0..(u64_BITS - 1)))

\* u64::checked_shl / i64::checked_shl: None when the amount is 64 or more,
\* else the shifted value, the bits pushed past bit 63 lost.
checked_shl(b, shift) ==
    IF shift >= u64_BITS THEN None
    ELSE Some({ k + shift : k \in b } \cap (0..(u64_BITS - 1)))

LebErr(kind) == [ok |-> FALSE, val |-> {}, remainder |-> <<>>, err |-> kind]

LebOk(data, val) == [ok |-> TRUE, val |-> val, remainder |-> data, err |-> "none"]

RECURSIVE uleb128_loop(_, _, _)
uleb128_loop(data, val, shift) ==
    IF data = <<>> THEN LebErr("Eof")
    ELSE LET byte == Head(data)
             b == Bits(byte) \ {7}
             shifted == checked_shl(b, shift)
         IN  IF shifted = None THEN LebErr("TooLarge")
             ELSE IF 7 \notin Bits(byte)
             THEN LebOk(Tail(data), val \cup shifted[1])
             ELSE uleb128_loop(Tail(data), val \cup shifted[1], shift + 7)

uleb128(input) == uleb128_loop(input, {}, 0)

\* The loop of sleb128; it also hands out the last byte and the shift.
RECURSIVE sleb128_loop(_, _, _)
sleb128_loop(data, val, shift) ==
    IF data = <<>> THEN [r |-> LebErr("Eof"), byte |-> 0, shift |-> shift]
    ELSE LET byte == Head(data)
             b == Bits(byte) \ {7}
             shifted == checked_shl(b, shift)
         IN  IF shifted = None
             THEN [r |-> LebErr("TooLarge"), byte |-> byte, shift |-> shift]
             ELSE IF 7 \notin Bits(byte)
             THEN [r |-> LebOk(Tail(data), val \cup shifted[1]),
                   byte |-> byte, shift |-> shift + 7]
             ELSE sleb128_loop(Tail(data), val \cup shifted[1], shift + 7)

\* No sign extension at all.
sleb128_sign_extend_never(l) == l.r

\* if shift < i64::BITS && (byte & 0x40) != 0 { val |= !0 << shift }
sleb128_sign_extend(l) ==
    IF l.r.ok /\ l.shift < u64_BITS /\ 6 \in Bits(l.byte)
    THEN [l.r EXCEPT !.val = @ \cup (l.shift..(u64_BITS - 1))]
    ELSE l.r

sleb128(input) == sleb128_sign_extend(sleb128_loop(input, {}, 0))

\* The inputs: a run of bytes with the continuation bit, then possibly a
\* terminating byte and a byte after it, and the inputs of the code's tests.
ContinuationBytes == {128, 255}

TerminatingBytes == {0, 1, 2, 63, 64, 127}

RECURSIVE Runs(_)
Runs(n) ==
    IF n = 0 THEN { <<>> }
    ELSE LET shorter == Runs(n - 1)
         IN  shorter \cup { Append(r, c) : r \in { x \in shorter : Len(x) = n - 1 },
                                          c \in ContinuationBytes }

TestInputs ==
    { <<129, 1>>, <<128, 1>>, <<126>>, <<160, 1>>, <<150, 5>>,
      <<229, 142, 38>>, <<199, 159, 127>>, <<156, 127>>, <<254, 0>> }

LebInputs ==
    LET runs == Runs(MaxLebLen)
    IN  runs
        \cup { Append(r, t) : r \in { x \in runs : Len(x) < MaxLebLen },
                              t \in TerminatingBytes }
        \cup { r \o <<t, 128>> : r \in { x \in runs : Len(x) < MaxLebLen - 1 },
                                 t \in TerminatingBytes }
        \cup TestInputs

LebCall ==
    /\ leb.pc = "idle"
    /\ \E input \in LebInputs :
         \/ leb' = [pc |-> "done", fn |-> "uleb128", input |-> input,
                    result |-> uleb128(input)]
         \/ leb' = [pc |-> "done", fn |-> "sleb128", input |-> input,
                    result |-> sleb128(input)]
    /\ UNCHANGED <<wasmVars, pikeVars, bindingVars, machoVars, fat, cpm>>

LebReturn ==
    /\ leb.pc = "done"
    /\ leb' = LebIdle
    /\ UNCHANGED <<wasmVars, pikeVars, bindingVars, machoVars, fat, cpm>>

LebNext ==
    \/ LebCall
    \/ LebReturn

SpecLeb == FatInit /\ [][LebNext]_vars

\* The reference decoders, on numbers: the position of the terminating byte
\* (0 when the input has none), the seven-bit groups of the encoded number
\* and, for SLEB128, its sign.
TerminatorAt(input) ==
    IF \E i \in 1..Len(input) : input[i] < 128
    THEN CHOOSE i \in 1..Len(input) :
            /\ input[i] < 128
            /\ \A j \in 1..(i - 1) : input[j] >= 128
    ELSE 0

\* Group i (from 0) of a value held as a set of bit positions.
Group(val, i) ==
    LET RECURSIVE Sum(_)
        Sum(k) == IF k < 0 THEN 0
                  ELSE (IF 7 * i + k \in val THEN Pow2(k) ELSE 0) + Sum(k - 1)
    IN  Sum(6)

\* Group i of the number the encoding stands for, at unbounded width.
RefGroup(input, i, signed) ==
    LET n == TerminatorAt(input)
    IN  IF i < n THEN input[i + 1] % 128
        ELSE IF signed /\ (input[n] \div 64) % 2 = 1 THEN 127
        ELSE 0

\* The groups a 64-bit value can hold: nine whole groups and bit 63.
Fits64(input, signed) ==
    LET n == TerminatorAt(input)
        top == RefGroup(input, 9, signed)
    IN  /\ \A i \in 10..(n - 1) : RefGroup(input, i, signed) = RefGroup(input, n, signed)
        /\ IF signed
           THEN top \in {0, 127} /\ RefGroup(input, 10, signed) = top
           ELSE top \in {0, 1}

Agrees64(val, input, signed) ==
    /\ \A i \in 0..8 : Group(val, i) = RefGroup(input, i, signed)
    /\ Group(val, 9) = RefGroup(input, 9, signed) % 2

\* The number a short encoding stands for, and the value of an i64 or u64
\* whose bits from 30 up are all equal.
RECURSIVE RefNumber(_, _)
RefNumber(input, i) ==
    IF i > TerminatorAt(input) THEN 0
    ELSE (input[i] % 128) * Pow2(7 * (i - 1)) + RefNumber(input, i + 1)

RefSigned(input) ==
    LET n == TerminatorAt(input)
    IN  RefNumber(input, 1)
          - (IF (input[n] \div 64) % 2 = 1 THEN Pow2(7 * n) ELSE 0)

SmallValue(val) ==
    LET RECURSIVE Sum(_)
        Sum(k) == IF k < 0 THEN 0
                  ELSE (IF k \in val THEN Pow2(k) ELSE 0) + Sum(k - 1)
    IN  Sum(29) - (IF 63 \in val THEN Pow2(30) ELSE 0)

\* C12: uleb128 agrees with a reference ULEB128 decoder on every input whose
\* terminating byte is among the first nine: the value is the sum of
\* (byte_i & 0x7f) * 2^(7i) and the remainder is the input after the
\* terminating byte; it returns an error when the first ten bytes all have
\* the continuation bit and when the input ends before a terminating byte.
C12_Uleb128AgreesWithReference ==
    (leb.pc = "done" /\ leb.fn = "uleb128") =>
        LET n == TerminatorAt(leb.input)
        IN  /\ (n \in 1..9) =>
                 /\ leb.result.ok
                 /\ Agrees64(leb.result.val, leb.input, FALSE)
                 /\ (n <= 4) => SmallValue(leb.result.val) = RefNumber(leb.input, 1)
                 /\ leb.result.remainder
                      = SubSeq(leb.input, n + 1, Len(leb.input))
            /\ (n = 0 \/ n > 10) => ~leb.result.ok

\* Nine bytes, the last one terminating and full, with a byte left over.
C12_Witness ==
    /\ leb.pc = "done"
    /\ leb.fn = "uleb128"
    /\ leb.input = <<255, 255, 255, 255, 255, 255, 255, 255, 127, 128>>
    /\ TerminatorAt(leb.input) = 9
    /\ leb.result.ok
    /\ leb.result.val = 0..62
    /\ leb.result.remainder = <<128>>

\* C13: sleb128 agrees with a reference SLEB128 decoder on every input whose
\* terminating byte is among the first nine; the value is sign-extended
\* exactly when bit 0x40 of the terminating byte is set.
C13_Sleb128AgreesWithReference ==
    (leb.pc = "done" /\ leb.fn = "sleb128") =>
        LET n == TerminatorAt(leb.input)
        IN  (n \in 1..9) =>
              /\ leb.result.ok
              /\ Agrees64(leb.result.val, leb.input, TRUE)
              /\ (63 \in leb.result.val) <=> ((leb.input[n] \div 64) % 2 = 1)
              /\ (n <= 4) => SmallValue(leb.result.val) = RefSigned(leb.input)
              /\ leb.result.remainder
                   = SubSeq(leb.input, n + 1, Len(leb.input))

\* C7 9F 7F decodes to -12345.
C13_Witness ==
    /\ leb.pc = "done"
    /\ leb.fn = "sleb128"
    /\ leb.input = <<199, 159, 127>>
    /\ leb.result.ok
    /\ SmallValue(leb.result.val) = 0 - 12345
    /\ 30..63 \subseteq leb.result.val

\* C14: uleb128 fails on every encoding of a number above 2^64 - 1 and
\* sleb128 on every encoding of a number outside -2^63 .. 2^63 - 1; neither
\* returns a value from which payload bits of the encoding were dropped.
C14_NoSilentTruncation ==
    (leb.pc = "done" /\ TerminatorAt(leb.input) > 0) =>
        LET signed == leb.fn = "sleb128"
        IN  /\ ~Fits64(leb.input, signed) => ~leb.result.ok
            /\ leb.result.ok => Agrees64(leb.result.val, leb.input, signed)

\* Ten bytes standing for 2^64: uleb128 returns 0.
C14_Witness ==
    /\ leb.pc = "done"
    /\ leb.fn = "uleb128"
    /\ leb.input = <<128, 128, 128, 128, 128, 128, 128, 128, 128, 2>>
    /\ leb.result.ok
    /\ leb.result.val = {}

(***************************************************************************)
(* check_for_pattern_match, called on its own: any content of the model's  *)
(* main memory, pattern ids inside and outside the bitmap.                 *)
(***************************************************************************)
MemoryBytes == {0, 1, 85, 128, 255}

Memories ==
    { [a \in DOMAIN MainMemory |->
          IF a < matching_patterns_bitmap_base THEN low
          ELSE bitmap[a - matching_patterns_bitmap_base + 1]] :
        low \in {0, 255}, bitmap \in [1..BitmapBytes -> MemoryBytes] }

PatternIds == 0..(8 * BitmapBytes + 1) \cup {524287, 2147483647}

CheckForPatternMatch ==
    /\ cpm.pc = "idle"
    /\ \E mem \in Memories, pattern_id \in PatternIds :
         cpm' = [pc |-> "done", mem |-> mem, pattern_id |-> pattern_id,
                 ret |-> check_for_pattern_match(mem, pattern_id)]
    /\ UNCHANGED <<wasmVars, pikeVars, bindingVars, machoVars, fat, leb>>

CheckForPatternMatchEnd ==
    /\ cpm.pc = "done"
    /\ cpm' = CpmIdle
    /\ UNCHANGED <<wasmVars, pikeVars, bindingVars, machoVars, fat, leb>>

CpmNext ==
    \/ CheckForPatternMatch
    \/ CheckForPatternMatchEnd

SpecCpm == FatInit /\ [][CpmNext]_vars

\* Bit `bit` of a byte, as 0 or 1.
BitOf(byte, bit) == (byte \div Pow2(bit)) % 2

ProbedAddress == matching_patterns_bitmap_base + (cpm.pattern_id \div 8)

\* C18 as claimed: for every pattern id and bitmap content the function
\* returns bit (pattern_id mod 8) of the byte at bitmap_base +
\* floor(pattern_id / 8), as 0 or 1, reads no other byte and writes nothing.
C18_ReturnsBitForEveryId ==
    cpm.pc = "done" =>
        /\ ~cpm.ret.trap
        /\ cpm.ret.loads = {ProbedAddress}
        /\ cpm.ret.stores = {}
        /\ ProbedAddress \in DOMAIN cpm.mem
              => cpm.ret.value = BitOf(cpm.mem[ProbedAddress], cpm.pattern_id % 8)

\* C18 amended: the same for every pattern id whose byte lies inside main
\* memory; for any other id the load traps, nothing is returned and nothing
\* is written.
C18_ReturnsBitInsideMemory ==
    cpm.pc = "done" =>
        IF ProbedAddress \in DOMAIN cpm.mem
        THEN /\ ~cpm.ret.trap
             /\ cpm.ret.value = BitOf(cpm.mem[ProbedAddress], cpm.pattern_id % 8)
             /\ cpm.ret.value \in {0, 1}
             /\ cpm.ret.loads = {ProbedAddress}
             /\ cpm.ret.stores = {}
        ELSE /\ cpm.ret.trap
             /\ cpm.ret.loads = {}
             /\ cpm.ret.stores = {}

\* Bit 7 of the second bitmap byte is read as 1 while its neighbours are 0
\* in the byte before and 1 in the bytes below the bitmap.
C18_Witness ==
    /\ cpm.pc = "done"
    /\ cpm.pattern_id = 15
    /\ cpm.mem[matching_patterns_bitmap_base + 1] = 128
    /\ cpm.mem[matching_patterns_bitmap_base] = 0
    /\ cpm.mem[0] = 255
    /\ cpm.ret.value = 1
    /\ ~cpm.ret.trap

(***************************************************************************)
(* Load commands: the loop of parse_macho_file over MachOFile::command     *)
(* (src/lib/src/modules/macho/parser.rs).                                  *)
(*                                                                         *)
(* A load command is its type and the state of its bytes: "whole", "short" *)
(* (its data, or the file, ends before what the command's parser reads: an *)
(* Eof error) or "no_nul" (an LC_LINKER_OPTION whose string lacks the      *)
(* terminating NUL: tag() fails with ErrorKind::Tag, the one error of the  *)
(* command parsers that is not Eof).  `parsed` lists the positions of the  *)
(* commands that populated their field of the MachOFile.                   *)
(***************************************************************************)
MaxCmds == 3

CommandTypes == {"LC_UUID", "LC_SYMTAB", "LC_LINKER_OPTION", "unknown"}

LoadCommands ==
    { [command |-> c, bytes |-> b] : c \in CommandTypes, b \in {"whole", "short"} }
        \cup { [command |-> "LC_LINKER_OPTION", bytes |-> "no_nul"] }

\* MachOFile::command on the remainder that starts at command `at`.
command(commands, at) ==
    IF at > Len(commands) THEN [ok |-> FALSE, code |-> "Eof"]
    ELSE IF commands[at].bytes = "short" THEN [ok |-> FALSE, code |-> "Eof"]
    ELSE IF commands[at].bytes = "no_nul" THEN [ok |-> FALSE, code |-> "Tag"]
    ELSE [ok |-> TRUE, code |-> "none"]

\* parse_macho_file from the header on: ncmds is read, the loop starts.
ParseMachoFile ==
    /\ lc.pc = "idle"
    /\ \E n \in 0..MaxCmds, ncmds \in 0..(MaxCmds + 1) :
         \E commands \in [1..n -> LoadCommands] :
            lc' = [pc |-> "commands", commands |-> commands, ncmds |-> ncmds,
                   at |-> 1, turn |-> 0, parsed |-> <<>>]
    /\ UNCHANGED <<wasmVars, pikeVars, bindingVars, fat, leb, cpm, trie, rva, out>>

\* One turn of `for _ in 0..macho.header.ncmds`: on Ok the remainder moves
\* past the command, on an Eof error the loop is left, on any other error
\* nothing is done and `commands` stays where it was.
LoadCommandTurn ==
    /\ lc.pc = "commands"
    /\ lc.turn < lc.ncmds
    /\ LET r == command(lc.commands, lc.at)
       IN  lc' = IF r.ok
                 THEN [lc EXCEPT !.turn = @ + 1, !.at = @ + 1,
                                 !.parsed = Append(@, lc.at)]
                 ELSE IF r.code = "Eof"
                 THEN [lc EXCEPT !.pc = "done"]
                 ELSE [lc EXCEPT !.turn = @ + 1]
    /\ UNCHANGED <<wasmVars, pikeVars, bindingVars, fat, leb, cpm, trie, rva, out>>

LoadCommandsEnd ==
    /\ lc.pc = "commands"
    /\ lc.turn >= lc.ncmds
    /\ lc' = [lc EXCEPT !.pc = "done"]
    /\ UNCHANGED <<wasmVars, pikeVars, bindingVars, fat, leb, cpm, trie, rva, out>>

LcNext ==
    \/ ParseMachoFile
    \/ LoadCommandTurn
    \/ LoadCommandsEnd

SpecLc == FatInit /\ [][LcNext]_vars

\* C21: a load command that fails with an error other than end-of-input
\* does not keep the commands after it (among the ncmds declared) from being
\* parsed and from populating their fields.
C21_LaterCommandsParsed ==
    lc.pc = "done" =>
        \A i \in 1..Len(lc.commands) :
            ( /\ i <= lc.ncmds
              /\ lc.commands[i].bytes = "whole"
              /\ \A j \in 1..(i - 1) : lc.commands[j].bytes /= "short" )
            => \E k \in 1..Len(lc.parsed) : lc.parsed[k] = i

\* An LC_LINKER_OPTION without its NUL, then a whole LC_UUID, two commands
\* declared: both turns of the loop went to the first command.
C21_Witness ==
    /\ lc.pc = "done"
    /\ lc.ncmds = 2
    /\ lc.commands = << [command |-> "LC_LINKER_OPTION", bytes |-> "no_nul"],
                        [command |-> "LC_UUID", bytes |-> "whole"] >>
    /\ lc.turn = 2
    /\ lc.at = 1
    /\ lc.parsed = <<>>

(***************************************************************************)
(* MachOFile::parse_exports (src/lib/src/modules/macho/parser.rs).         *)
(*                                                                         *)
(* The export trie is given by what the parser reads at each offset of the *)
(* data: a node that does not parse ("malformed": one of its uleb128, u8   *)
(* or label parsers fails), or the terminal length and the edges found     *)
(* where the parser looks for them.  data[k] is the node at offset k - 1;  *)
(* larger offsets are outside the data.  A name is the sequence of the     *)
(* edge labels it is concatenated from; the label "\xff" is not UTF-8.     *)
(***************************************************************************)
MaxTrieNodes == 2

MaxEdges == 2

OutsideOffset == MaxTrieNodes + 7

EdgeLabels == {"a", "b", "\\xff"}

TrieEdges ==
    [label : EdgeLabels, offset : 0..(MaxTrieNodes - 1) \cup {OutsideOffset}]

TrieNodes ==
    { [malformed |-> FALSE, length |-> l, edges |-> e] :
        l \in {0, 1}, e \in UNION { [1..n -> TrieEdges] : n \in 0..MaxEdges } }
    \cup { [malformed |-> TRUE, length |-> 0, edges |-> <<>>] }

Tries == UNION { [1..n -> TrieNodes] : n \in 0..MaxTrieNodes }

ExportNode(offset, prefix) == [offset |-> offset, prefix |-> prefix]

\* The for loop over the edges of a node: an edge whose label is UTF-8 is
\* pushed with the prefix grown by the label.
RECURSIVE push_edges(_, _, _, _)
push_edges(stack, edges, i, prefix) ==
    IF i > Len(edges) THEN stack
    ELSE push_edges(
             IF edges[i].label /= "\\xff"
             THEN Append(stack, ExportNode(edges[i].offset,
                                           Append(prefix, edges[i].label)))
             ELSE stack,
             edges, i + 1, prefix)

\* One turn of the while loop without the test of the visited set.
parse_exports_turn_unvisited(t) ==
    LET export_node == t.stack[Len(t.stack)]
        popped == [t EXCEPT !.stack = SubSeq(@, 1, Len(@) - 1), !.pops = @ + 1]
    IN  IF export_node.offset >= Len(t.data) THEN popped
        ELSE LET node == t.data[export_node.offset + 1]
             IN  IF node.malformed
                 THEN [popped EXCEPT !.pc = "done", !.result = "Err"]
                 ELSE [popped EXCEPT
                         !.stack = push_edges(@, node.edges, 1, export_node.prefix),
                         !.expanded = Append(@, export_node),
                         !.exports = IF node.length /= 0
                                     THEN Append(@, export_node.prefix) ELSE @]

\* One turn of the while loop of parse_exports.
parse_exports_turn(t) ==
    LET export_node == t.stack[Len(t.stack)]
        popped == [t EXCEPT !.stack = SubSeq(@, 1, Len(@) - 1), !.pops = @ + 1]
    IN  IF export_node.offset \in t.visited THEN popped
        ELSE LET seen == [popped EXCEPT !.visited = @ \cup {export_node.offset}]
             IN  IF export_node.offset > Len(t.data) THEN seen
                 ELSE IF export_node.offset = Len(t.data)
                 THEN \* data.get(len..) is the empty slice: uleb128 fails
                      [seen EXCEPT !.pc = "done", !.result = "Err"]
                 ELSE LET node == t.data[export_node.offset + 1]
                      IN  IF node.malformed
                          THEN [seen EXCEPT !.pc = "done", !.result = "Err"]
                          ELSE [seen EXCEPT
                                  !.stack = push_edges(@, node.edges, 1,
                                                       export_node.prefix),
                                  !.expanded = Append(@, export_node),
                                  !.exports = IF node.length /= 0
                                              THEN Append(@, export_node.prefix)
                                              ELSE @]

ParseExports ==
    /\ trie.pc = "idle"
    /\ \E data \in Tries :
         trie' = [TrieIdle EXCEPT !.pc = "loop", !.data = data,
                                  !.stack = <<ExportNode(0, <<>>)>>]
    /\ UNCHANGED <<wasmVars, pikeVars, bindingVars, fat, leb, cpm, lc, rva, out>>

ParseExportsTurn ==
    /\ trie.pc = "loop"
    /\ trie.stack /= <<>> /\ trie.data /= <<>>
    /\ trie' = parse_exports_turn(trie)
    /\ UNCHANGED <<wasmVars, pikeVars, bindingVars, fat, leb, cpm, lc, rva, out>>

ParseExportsEnd ==
    /\ trie.pc = "loop"
    /\ trie.stack = <<>> \/ trie.data = <<>>
    /\ trie' = [trie EXCEPT !.pc = "done", !.result = "Ok"]
    /\ UNCHANGED <<wasmVars, pikeVars, bindingVars, fat, leb, cpm, lc, rva, out>>

TrieNext ==
    \/ ParseExports
    \/ ParseExportsTurn
    \/ ParseExportsEnd

SpecTrie == FatInit /\ [][TrieNext]_vars

\* Whether `path`, a sequence of labels, leads from the node at `from` to
\* the node at `offset` along edges of the trie.
RECURSIVE PathLeads(_, _, _, _)
PathLeads(data, from, path, offset) ==
    IF path = <<>> THEN from = offset
    ELSE /\ from < Len(data)
         /\ ~data[from + 1].malformed
         /\ \E i \in 1..Len(data[from + 1].edges) :
               /\ data[from + 1].edges[i].label = Head(path)
               /\ PathLeads(data, data[from + 1].edges[i].offset, Tail(path), offset)

RECURSIVE EdgeCount(_)
EdgeCount(data) ==
    IF data = <<>> THEN 0
    ELSE Len(Head(data).edges) + EdgeCount(Tail(data))

\* C22: parse_exports terminates on every input, tries with cycles and with
\* edges that leave the data included: a node offset is expanded at most
\* once, a name is recorded only for a node with a non-zero terminal length
\* and is the labels of the path by which the node was first reached.
C22_ExportsTerminate ==
    /\ trie.pops <= 1 + EdgeCount(trie.data)
    /\ \A i, j \in 1..Len(trie.expanded) :
          trie.expanded[i].offset = trie.expanded[j].offset => i = j
    /\ trie.exports =
          LET named == SelectSeq(trie.expanded,
                           LAMBDA n : trie.data[n.offset + 1].length /= 0)
          IN  [k \in 1..Len(named) |-> named[k].prefix]
    /\ \A i \in 1..Len(trie.expanded) :
          PathLeads(trie.data, 0, trie.expanded[i].prefix, trie.expanded[i].offset)

\* A cycle between the two nodes, both with a terminal: each is expanded
\* once, the second edge back to the root is dropped, two names.
C22_Witness ==
    /\ trie.pc = "done"
    /\ trie.result = "Ok"
    /\ Len(trie.data) = 2
    /\ \E i \in 1..Len(trie.data[1].edges) : trie.data[1].edges[i].offset = 1
    /\ \E i \in 1..Len(trie.data[2].edges) : trie.data[2].edges[i].offset = 0
    /\ \E i \in 1..Len(trie.data[2].edges) : trie.data[2].edges[i].offset = OutsideOffset
    /\ Len(trie.expanded) = 2
    /\ Len(trie.exports) = 2
    /\ trie.pops > 2

(***************************************************************************)
(* MachOFile::rva_to_offset (src/lib/src/modules/macho/parser.rs).         *)
(* u64 values are sets of bit positions, as for uleb128; sums are made bit *)
(* by bit at a given width, so that 64-bit overflow is exact.              *)
(***************************************************************************)
MaxSegments == 2

\* a + b on `width` bits: the sum and whether a carry left the last bit.
\* The carry into bit k comes from a lower bit set in both operands through
\* bits set in at least one of them.
CarryInto(a, b, k) ==
    \E j \in 0..(k - 1) :
        /\ j \in a /\ j \in b
        /\ \A i \in (j + 1)..(k - 1) : i \in a \/ i \in b

AddBits(a, b, width) ==
    [ val |-> {k \in 0..(width - 1) :
                 ((k \in a) /= (k \in b)) /= CarryInto(a, b, k)},
      overflow |-> CarryInto(a, b, width) ]

\* a - b on `width` bits: the difference and whether it borrowed past the top.
BorrowInto(a, b, k) ==
    \E j \in 0..(k - 1) :
        /\ j \notin a /\ j \in b
        /\ \A i \in (j + 1)..(k - 1) : (i \in a) = (i \in b)

SubBits(a, b, width) ==
    [ val |-> {k \in 0..(width - 1) :
                 ((k \in a) /= (k \in b)) /= BorrowInto(a, b, k)},
      overflow |-> BorrowInto(a, b, width) ]

\* a < b for two values held as sets of bit positions.
LessBits(a, b) ==
    LET differ == (a \ b) \cup (b \ a)
    IN  /\ differ /= {}
        /\ (CHOOSE k \in differ : \A j \in differ : j <= k) \in b

u64_checked_add(a, b) ==
    LET r == AddBits(a, b, u64_BITS)
    IN  IF r.overflow THEN None ELSE Some(r.val)

u64_checked_sub(a, b) ==
    LET r == SubBits(a, b, u64_BITS)
    IN  IF r.overflow THEN None ELSE Some(r.val)

\* rva_to_offset over the segments from the i-th on. Each `?` returns None
\* from the function.
RECURSIVE rva_to_offset(_, _, _)
rva_to_offset(segments, i, addr) ==
    IF i > Len(segments) THEN None
    ELSE LET segment == segments[i]
             start == segment.vmaddr
             end == u64_checked_add(segment.vmaddr, segment.vmsize)
         IN  IF end = None THEN None
             ELSE IF ~LessBits(addr, start) /\ LessBits(addr, end[1])
             THEN LET d == u64_checked_sub(addr, start)
                  IN  IF d = None THEN None
                      ELSE u64_checked_add(segment.fileoff, d[1])
             ELSE rva_to_offset(segments, i + 1, addr)

\* 0, 1, 2^63, 2^64 - 2 and 2^64 - 1.
U64Values == { {}, {0}, {u64_BITS - 1}, 1..(u64_BITS - 1), 0..(u64_BITS - 1) }

Segments ==
    [ vmaddr : U64Values, vmsize : U64Values,
      fileoff : { {}, {0}, 0..(u64_BITS - 1) } ]

RvaToOffset ==
    /\ rva.pc = "idle"
    /\ \E n \in 0..MaxSegments, addr \in U64Values :
         \E segments \in [1..n -> Segments] :
            rva' = [pc |-> "done", segments |-> segments, rva |-> addr,
                    result |-> rva_to_offset(segments, 1, addr)]
    /\ UNCHANGED <<wasmVars, pikeVars, bindingVars, fat, leb, cpm, lc, trie, out>>

RvaToOffsetEnd ==
    /\ rva.pc = "done"
    /\ rva' = RvaIdle
    /\ UNCHANGED <<wasmVars, pikeVars, bindingVars, fat, leb, cpm, lc, trie, out>>

RvaNext ==
    \/ RvaToOffset
    \/ RvaToOffsetEnd

SpecRva == FatInit /\ [][RvaNext]_vars

\* vmaddr <= addr < vmaddr + vmsize, the sum taken on 65 bits.
SegmentContains(segment, addr) ==
    /\ ~LessBits(addr, segment.vmaddr)
    /\ LessBits(addr, AddBits(segment.vmaddr, segment.vmsize,
                              u64_BITS + 1).val)

\* fileoff + (addr - vmaddr) of the first segment that contains addr, None
\* when there is none or the offset does not fit in 64 bits.
ExpectedOffset(segments, addr) ==
    LET holders == {i \in 1..Len(segments) : SegmentContains(segments[i], addr)}
    IN  IF holders = {} THEN None
        ELSE LET first == CHOOSE i \in holders : \A j \in holders : i <= j
                 off == AddBits(segments[first].fileoff,
                                SubBits(addr, segments[first].vmaddr,
                                        u64_BITS + 1).val,
                                u64_BITS + 1).val
             IN  IF u64_BITS \in off THEN None ELSE Some(off)

\* C24: rva_to_offset returns fileoff + (rva - vmaddr) of the first segment
\* with vmaddr <= rva < vmaddr + vmsize, None exactly when no segment
\* contains rva or the offset does not fit in 64 bits; a segment that does
\* not contain rva has no influence on the result.
C24_RvaToOffset ==
    rva.pc = "done" => rva.result = ExpectedOffset(rva.segments, rva.rva)

\* A first segment at 2^64 - 1 of size 1, which does not contain 0, and a
\* second segment that maps 0 to file offset 1: the result is None.
C24_Witness ==
    /\ rva.pc = "done"
    /\ rva.rva = {}
    /\ rva.segments =
         << [vmaddr |-> 0..(u64_BITS - 1), vmsize |-> {0}, fileoff |-> {}],
            [vmaddr |-> {}, vmsize |-> {0}, fileoff |-> {0}] >>
    /\ ExpectedOffset(rva.segments, rva.rva) = Some({0})
    /\ rva.result = None

(***************************************************************************)
(* Conversion of a parsed Mach-O to the module output:                     *)
(* impl From<MachO> for protos::macho::Macho and                           *)
(* impl From<&MachOFile> for protos::macho::File.                          *)
(***************************************************************************)
MaxSymbols == 1

N_STAB == 224
N_TYPE == 14
N_EXT == 1
N_UNDF == 0
N_ABS == 2
N_SECT == 14
N_INDR == 10

\* tags & mask for the three masks the conversion uses.
tags_and(tags, mask) ==
    CASE mask = N_EXT  -> tags % 2
      [] mask = N_TYPE -> ((tags \div 2) % 8) * 2
      [] mask = N_STAB -> (tags \div 32) * 32

\* BStr::new(e.value).to_string(): bytes that are not UTF-8 are replaced.
bstr_to_string(value) == IF value = "\\xff" THEN "\\u{FFFD}" ELSE value

\* symtab.entries.iter().filter_map(..) of the exports fallback.
symtab_exports(symtab) ==
    LET is_exported(e) ==
          LET t == tags_and(e.tags, N_TYPE)
          IN  /\ tags_and(e.tags, N_EXT) /= 0
              /\ (t = N_SECT \/ t = N_ABS \/ t = N_INDR)
              /\ tags_and(e.tags, N_STAB) = 0
        kept == SelectSeq(symtab, is_exported)
    IN  [i \in 1..Len(kept) |-> bstr_to_string(kept[i].value)]

\* symtab.entries.iter().filter_map(..) of the imports fallback.
symtab_imports(symtab) ==
    LET is_imported(e) ==
          LET t == tags_and(e.tags, N_TYPE)
          IN  t = N_UNDF /\ tags_and(e.tags, N_STAB) = 0
        kept == SelectSeq(symtab, is_imported)
    IN  [i \in 1..Len(kept) |-> bstr_to_string(kept[i].value)]

\* The fields of the output that both conversions fill in the same way.
file_fields_exports_anyway(m) ==
    [ magic |-> Some(m.magic),
      symtab |-> m.symtab,
      dyld_info |-> m.dyld_info,
      exports |-> m.exports
                  \o (IF m.symtab /= None
                      THEN symtab_exports(m.symtab[1]) ELSE <<>>),
      imports |-> m.imports
                  \o (IF ~m.dyld_chain_fixups /\ ~m.dyld_info /\ m.symtab /= None
                      THEN symtab_imports(m.symtab[1]) ELSE <<>>) ]

file_fields(m) ==
    [ magic |-> Some(m.magic),
      symtab |-> m.symtab,
      dyld_info |-> m.dyld_info,
      exports |-> m.exports
                  \o (IF ~m.dyld_export_trie /\ ~m.dyld_info /\ m.symtab /= None
                      THEN symtab_exports(m.symtab[1]) ELSE <<>>),
      imports |-> m.imports
                  \o (IF ~m.dyld_chain_fixups /\ ~m.dyld_info /\ m.symtab /= None
                      THEN symtab_imports(m.symtab[1]) ELSE <<>>) ]

\* protos::macho::File::new() / protos::macho::Macho::new(): nothing set.
NoFileFields ==
    [ magic |-> None, symtab |-> None, dyld_info |-> FALSE,
      exports |-> <<>>, imports |-> <<>> ]

From_MachOFile(m) == file_fields(m)

From_MachO(macho) ==
    IF Len(macho.files) = 1
    THEN [ top |-> file_fields(macho.files[1]),
           fat_magic |-> None, nfat_arch |-> None,
           fat_arch |-> <<>>, file |-> <<>> ]
    ELSE [ top |-> NoFileFields,
           fat_magic |-> macho.fat_magic,
           nfat_arch |-> Some(Len(macho.archs)),
           fat_arch |-> macho.archs,
           file |-> [i \in 1..Len(macho.files) |-> From_MachOFile(macho.files[i])] ]

SymbolTags == {1, 15, 14, 47}
SymbolEntries == [ tags : SymbolTags, value : {"_s", "\\xff"} ]

\* What parse_macho_file can leave in a MachOFile: `exports` is filled from
\* the export trie of LC_DYLD_EXPORTS_TRIE or LC_DYLD_INFO, `imports` from
\* the bind opcodes of LC_DYLD_INFO or the chained fixups.
MachOFiles ==
    { m \in [ magic : {"MH_MAGIC_64"},
              dyld_info : BOOLEAN, dyld_export_trie : BOOLEAN,
              dyld_chain_fixups : BOOLEAN,
              symtab : {None} \cup
                       { Some(e) : e \in UNION { [1..n -> SymbolEntries] :
                                                 n \in 0..MaxSymbols } },
              exports : {<<>>, <<"_t">>},
              imports : {<<>>, <<"_i">>} ] :
        /\ m.exports /= <<>> => (m.dyld_export_trie \/ m.dyld_info)
        /\ m.imports /= <<>> => (m.dyld_chain_fixups \/ m.dyld_info) }

\* MachO::parse returns one file without FAT fields, or the FAT magic, the
\* declared architectures and the slices that parsed.
SingleMachO(m) == [fat_magic |-> None, archs |-> <<>>, files |-> <<m>>]

FatMachO(n, files) ==
    [ fat_magic |-> Some("FAT_MAGIC"),
      archs |-> [i \in 1..n |-> [offset |-> i]],
      files |-> files ]

MachOInto ==
    /\ out.pc = "idle"
    /\ \/ \E m \in MachOFiles :
            out' = [pc |-> "done", macho |-> SingleMachO(m),
                    result |-> From_MachO(SingleMachO(m))]
       \/ \E n \in 0..MaxArchs : \E k \in 0..n :
            \E files \in [1..k -> MachOFiles] :
               out' = [pc |-> "done", macho |-> FatMachO(n, files),
                       result |-> From_MachO(FatMachO(n, files))]
    /\ UNCHANGED <<wasmVars, pikeVars, bindingVars, fat, leb, cpm, lc, trie, rva>>

MachOIntoEnd ==
    /\ out.pc = "done"
    /\ out' = OutIdle
    /\ UNCHANGED <<wasmVars, pikeVars, bindingVars, fat, leb, cpm, lc, trie, rva>>

OutNext ==
    \/ MachOInto
    \/ MachOIntoEnd

SpecOut == FatInit /\ [][OutNext]_vars

\* The output entries that come from a parsed file, paired with the file:
\* the top level of a single-architecture output, each `file` of a FAT one.
Converted ==
    IF out.pc /= "done" THEN {}
    ELSE (IF out.result.top.magic /= None
          THEN { <<out.macho.files[1], out.result.top>> } ELSE {})
         \cup { <<out.macho.files[i], out.result.file[i]>> :
                i \in 1..Len(out.result.file) }

C26_FatOutput ==
    (out.pc = "done" /\ out.macho.fat_magic /= None) =>
        /\ out.result.fat_magic = out.macho.fat_magic
        /\ out.result.nfat_arch = Some(Len(out.macho.archs))
        /\ Len(out.result.fat_arch) = Len(out.macho.archs)
        /\ Len(out.result.file) = Len(out.macho.files)

\* Two declared architectures of which one parsed: the output has the fields
\* of a single-architecture file and no FAT field.
C26_Witness ==
    /\ out.pc = "done"
    /\ out.macho.fat_magic = Some("FAT_MAGIC")
    /\ Len(out.macho.archs) = 2
    /\ Len(out.macho.files) = 1
    /\ out.result.fat_magic = None
    /\ out.result.file = <<>>
    /\ out.result.top.magic = Some("MH_MAGIC_64")

====
